---------------------------- MODULE Spec2Model ----------------------------
(***************************************************************************)
(* A model of the Sage application's core logic: the health keyword        *)
(* matcher (lib/healthExtraction), the Cognitive Linguistic Index scorer   *)
(* (lib/cliScoring), the LLM response wrapper (lib/openaiApi), the         *)
(* debounced sync pass of App.tsx, the login / signUp actions of the store *)
(* and the Talk screen's conversation.                                     *)
(*                                                                         *)
(* Text is modelled at the character level: a string is a sequence of      *)
(* one-character strings, so that substring tests, regular-expression word *)
(* boundaries, trimming, splitting and lower-casing are computed the way   *)
(* the JavaScript code computes them.                                      *)
(*                                                                         *)
(* Each component has its own specification over its own variables; the    *)
(* variables of the other components stay as initialised.                  *)
(***************************************************************************)
EXTENDS Integers, Sequences, FiniteSets, TLC

VARIABLES
  \* Talk screen, dictation turn
  isRecording,  \* the recognizer is running
  transcript,   \* transcriptBuilderRef.current, the text dictated so far
  nPieces,      \* number of recognizer results in the transcript
  utterance,    \* finalTranscript, the text of the user message just added
  detected,     \* healthInfo, the list extractHealthInfo returned for it
  \* CLI scorer
  cliMessages,  \* the messages argument of calculateCLIScore
  cliArgs,      \* its duration, pauses and fillerWords arguments
  cliResult,    \* what it returned, NoScore before the call
  cliEarlier,   \* what an earlier call with the same arguments returned
  \* Sage response wrapper
  provider,     \* which module is in use, lib/openaiApi or lib/geminiApi
  API_KEY,      \* the module's API_KEY
  clientReady,  \* the client (openai, model) is not null
  sageStatus,   \* unloaded, ready, awaiting the request, resolved or rejected
  sageMessage,  \* the userMessage argument of generateSageResponse
  completion,   \* the outcome of the request
  sageReply,    \* the string the promise resolved with
  \* sync pass
  localItems,   \* the store's arrays, by entity type
  remoteRows,   \* the user's rows in the hosted store, by entity type
  directPending, \* by type: the ids whose create by a store action is under way
  syncPc,       \* idle, or the await the pass is at: user, fetch, create; done
  syncType,     \* the entity type the pass is at, as an index of Types
  syncItem,     \* the position in the array of the item being created
  snapshot,     \* state, the arrays as they were when the pass started
  existingIds,  \* the ids fetched for the current entity type
  userUpdate,   \* this pass: the user update was not made, succeeded or failed
  fetched,      \* this pass, by entity type: the fetch was not made, succeeded or failed
  fetchedIds,   \* this pass, by entity type: the ids fetched
  createCalls,  \* this pass, by entity type: the ids create was called for
  failures,     \* this pass: the number of calls that failed
  \* accounts
  remoteUsers,  \* the rows of the table users: username and password
  blob,         \* the localStorage item sage-users: key, password and user shape
  isAuthenticated,
  currentUserId,
  authLast,     \* the last call of a store action: arguments and result
  storeItems,   \* the items in the store's arrays
  remoteItems,  \* the rows of the hosted store's data tables: user id and item
  blobItems,    \* the items in the arrays of the blob's entries: key and item
  signedUp,     \* history: the last signUp that returned true, and its account
  user,         \* the store's user: preferredName and hasCompletedOnboarding, or null
  blobUser,     \* the user objects and isOnboarded flags of the blob's entries, by key
  rowUser,      \* preferred_name, is_onboarded and family_members of the rows of users
  familyRequests, \* the store's familyRequests
  blobRequests,   \* the familyRequests of the blob's entries: key and request
  requestCount,   \* the requests created so far (each gets a new id)
  pass,           \* App's effect: its timer, and the pass of saveUserData in flight
  \* Talk screen, conversation
  isConversationStarted,
  talkMessages,         \* messages, the component's message list
  currentSession,       \* the session under way, NoSession for null
  pendingHealthCard,    \* the health card prompt, NoCard for null
  isGeneratingResponse,
  awaited,              \* the stopRecording call suspended at generateSageResponse
  sessionStartTime,     \* sessionStartTimeRef.current
  clock,                \* Date.now(), in milliseconds
  talkSessions,         \* the store's talkSessions
  healthCards,          \* the store's healthCards
  appended,             \* history: the user messages added, with the session's id
  lastHandler           \* history: the handler that ran last

talkVars == <<isRecording, transcript, nPieces, utterance, detected>>
cliVars == <<cliMessages, cliArgs, cliResult, cliEarlier>>

sageVars ==
  <<provider, API_KEY, clientReady, sageStatus, sageMessage, completion, sageReply>>

syncVars ==
  <<localItems, remoteRows, directPending, syncPc, syncType, syncItem, snapshot,
    existingIds, userUpdate,
    fetched, fetchedIds, createCalls, failures>>

appVars == <<pass>>

authVars ==
  <<remoteUsers, blob, isAuthenticated, currentUserId, authLast, storeItems, remoteItems,
    blobItems, signedUp, user, blobUser, rowUser, familyRequests, blobRequests, requestCount>>

conversationVars ==
  <<isConversationStarted, talkMessages, currentSession, pendingHealthCard,
    isGeneratingResponse, awaited, sessionStartTime, clock, talkSessions, healthCards,
    appended, lastHandler>>

vars == <<talkVars, cliVars, sageVars, syncVars, authVars, conversationVars, appVars>>

---------------------------------------------------------------------------
(* Strings *)

\* \w of a JavaScript regular expression: [A-Za-z0-9_]
WordChars ==
  {"A","B","C","D","E","F","G","H","I","J","K","L","M",
   "N","O","P","Q","R","S","T","U","V","W","X","Y","Z",
   "a","b","c","d","e","f","g","h","i","j","k","l","m",
   "n","o","p","q","r","s","t","u","v","w","x","y","z",
   "0","1","2","3","4","5","6","7","8","9","_"}

\* the white space String.prototype.trim removes (of the characters used here)
WhiteSpace == {" ", "\n", "\t"}

\* the lower-case letter of each upper-case letter
LowerOf ==
  "A" :> "a" @@ "B" :> "b" @@ "C" :> "c" @@ "D" :> "d" @@ "E" :> "e" @@ "F" :> "f" @@
  "G" :> "g" @@ "H" :> "h" @@ "I" :> "i" @@ "J" :> "j" @@ "K" :> "k" @@ "L" :> "l" @@
  "M" :> "m" @@ "N" :> "n" @@ "O" :> "o" @@ "P" :> "p" @@ "Q" :> "q" @@ "R" :> "r" @@
  "S" :> "s" @@ "T" :> "t" @@ "U" :> "u" @@ "V" :> "v" @@ "W" :> "w" @@ "X" :> "x" @@
  "Y" :> "y" @@ "Z" :> "z"

ToLowerChar(c) == IF c \in DOMAIN LowerOf THEN LowerOf[c] ELSE c

\* String.prototype.toLowerCase
ToLowerCase(s) == [i \in 1..Len(s) |-> ToLowerChar(s[i])]

\* s has k at offset i (0-based)
OccursAt(s, k, i) ==
  /\ i + Len(k) <= Len(s)
  /\ \A j \in 1..Len(k) : s[i + j] = k[j]

\* String.prototype.includes
Includes(s, k) == \E i \in 0..(Len(s) - Len(k)) : OccursAt(s, k, i)

IsWordAt(s, p) == p >= 1 /\ p <= Len(s) /\ s[p] \in WordChars

\* the assertion \b between the characters p and p+1 of s
WordBoundary(s, p) == IsWordAt(s, p) # IsWordAt(s, p + 1)

\* s.match(/\b(w)\b/) for one alternative w
MatchesWord(s, w) ==
  \E i \in 0..(Len(s) - Len(w)) :
    OccursAt(s, w, i) /\ WordBoundary(s, i) /\ WordBoundary(s, i + Len(w))

\* s.match(/\b(w1|w2|...)\b/)
MatchesAnyWord(s, ws) == \E n \in 1..Len(ws) : MatchesWord(s, ws[n])

\* String.prototype.trim
Trim(s) ==
  LET keep == {i \in 1..Len(s) : s[i] \notin WhiteSpace}
  IN  IF keep = {} THEN <<>>
      ELSE LET lo == CHOOSE i \in keep : \A j \in keep : i <= j
               hi == CHOOSE i \in keep : \A j \in keep : j <= i
           IN  SubSeq(s, lo, hi)

\* s.split(' ')[0]
FirstSegment(s) ==
  IF \E i \in 1..Len(s) : s[i] = " "
  THEN SubSeq(s, 1, (CHOOSE i \in 1..Len(s) : s[i] = " " /\ \A j \in 1..(i - 1) : s[j] # " ") - 1)
  ELSE s

\* the run of characters in chars that starts at position i of s
RunFrom(s, chars, i) ==
  SubSeq(s, i, CHOOSE j \in i..Len(s) :
                 /\ (j = Len(s) \/ s[j + 1] \notin chars)
                 /\ \A m \in i..j : s[m] \in chars)

\* the runs that start at the positions starts, in order; rank[i] is the number
\* of starts up to i
RunsRanked(s, chars, starts, rank) ==
  [n \in 1..Cardinality(starts) |-> RunFrom(s, chars, CHOOSE i \in starts : rank[i] = n)]

RunsAt(s, chars, starts) ==
  RunsRanked(s, chars, starts, [i \in starts |-> Cardinality({j \in starts : j <= i})])

\* the maximal runs of characters of s that are in the set chars, in order
RunsOf(s, chars) ==
  RunsAt(s, chars,
         {i \in 1..Len(s) : s[i] \in chars /\ (i = 1 \/ s[i - 1] \notin chars)})

\* the pieces of s between the runs of separator characters, the empty pieces
\* (at either end of s) left out
SplitOn(s, seps) == RunsOf(s, {s[i] : i \in 1..Len(s)} \ seps)

SentenceEnd == {".", "!", "?"}

\* text.split(/[.!?]+/).filter(s => s.trim().length > 0): the pieces between runs of
\* sentence punctuation; the empty pieces split also yields are blank and filtered out
SplitSentences(s) ==
  SelectSeq(SplitOn(s, SentenceEnd), LAMBDA x : Len(Trim(x)) > 0)

RECURSIVE JoinAll(_, _)
\* strings.join(sep)
JoinAll(strings, sep) ==
  IF Len(strings) = 0 THEN <<>>
  ELSE IF Len(strings) = 1 THEN strings[1]
  ELSE strings[1] \o sep \o JoinAll(Tail(strings), sep)

---------------------------------------------------------------------------
(* Health keyword matcher *)

HEALTH_KEYWORDS ==
  <<
    [category |-> "pain", severity |-> "moderate", keywords |-> <<
       <<"p","a","i","n">>, <<"a","c","h","e">>, <<"a","c","h","i","n","g">>,
       <<"s","o","r","e">>, <<"h","u","r","t">>, <<"h","u","r","t","i","n","g">>,
       <<"d","i","s","c","o","m","f","o","r","t">>, <<"t","e","n","d","e","r">>,
       <<"s","t","i","f","f">>, <<"s","h","a","r","p">>, <<"d","u","l","l">>,
       <<"t","h","r","o","b","b","i","n","g">>, <<"b","u","r","n","i","n","g">> >>],
    [category |-> "sleep", severity |-> "low", keywords |-> <<
       <<"s","l","e","e","p">>, <<"s","l","e","p","t">>, <<"s","l","e","e","p","i","n","g">>,
       <<"i","n","s","o","m","n","i","a">>, <<"t","i","r","e","d">>,
       <<"e","x","h","a","u","s","t","e","d">>, <<"r","e","s","t","l","e","s","s">>,
       <<"w","a","k","e">>, <<"w","a","k","i","n","g">>,
       <<"n","i","g","h","t","m","a","r","e">>, <<"d","r","e","a","m">>, <<"n","a","p">>,
       <<"s","n","o","o","z","e">> >>],
    [category |-> "mood", severity |-> "low", keywords |-> <<
       <<"h","a","p","p","y">>, <<"s","a","d">>, <<"d","e","p","r","e","s","s","e","d">>,
       <<"a","n","x","i","o","u","s">>, <<"w","o","r","r","i","e","d">>,
       <<"s","t","r","e","s","s","e","d">>, <<"c","a","l","m">>,
       <<"p","e","a","c","e","f","u","l">>, <<"f","r","u","s","t","r","a","t","e","d">>,
       <<"a","n","g","r","y">>, <<"u","p","s","e","t">>, <<"d","o","w","n">>,
       <<"b","l","u","e">>, <<"m","o","o","d">> >>],
    [category |-> "energy", severity |-> "low", keywords |-> <<
       <<"e","n","e","r","g","y">>, <<"e","n","e","r","g","e","t","i","c">>,
       <<"t","i","r","e","d">>, <<"f","a","t","i","g","u","e">>,
       <<"e","x","h","a","u","s","t","e","d">>, <<"l","e","t","h","a","r","g","i","c">>,
       <<"w","e","a","k">>, <<"d","r","a","i","n","e","d">>, <<"l","i","v","e","l","y">>,
       <<"a","c","t","i","v","e">>, <<"s","l","u","g","g","i","s","h">> >>],
    [category |-> "appetite", severity |-> "low", keywords |-> <<
       <<"a","p","p","e","t","i","t","e">>, <<"h","u","n","g","r","y">>,
       <<"e","a","t","i","n","g">>, <<"f","o","o","d">>, <<"m","e","a","l">>,
       <<"n","a","u","s","e","a">>, <<"n","a","u","s","e","o","u","s">>,
       <<"s","t","o","m","a","c","h">>, <<"d","i","g","e","s","t","i","o","n">>,
       <<"i","n","d","i","g","e","s","t","i","o","n">>,
       <<"a","p","p","e","t","i","t","e"," ","l","o","s","s">> >>],
    [category |-> "mobility", severity |-> "moderate", keywords |-> <<
       <<"w","a","l","k">>, <<"w","a","l","k","i","n","g">>, <<"m","o","v","e">>,
       <<"m","o","v","i","n","g">>, <<"m","o","b","i","l","i","t","y">>,
       <<"s","t","i","f","f">>, <<"s","t","i","f","f","n","e","s","s">>,
       <<"j","o","i","n","t">>, <<"k","n","e","e">>, <<"h","i","p">>, <<"b","a","c","k">>,
       <<"s","h","o","u","l","d","e","r">>, <<"l","i","m","b">>, <<"l","e","g">>,
       <<"a","r","m">> >>],
    [category |-> "medication", severity |-> "high", keywords |-> <<
       <<"m","e","d","i","c","a","t","i","o","n">>, <<"m","e","d","i","c","i","n","e">>,
       <<"p","i","l","l">>, <<"p","r","e","s","c","r","i","p","t","i","o","n">>,
       <<"d","r","u","g">>, <<"d","o","s","e">>, <<"d","o","s","a","g","e">>,
       <<"t","a","k","e">>, <<"t","a","k","i","n","g">>, <<"f","o","r","g","o","t">>,
       <<"m","i","s","s","e","d">>, <<"p","h","a","r","m","a","c","y">> >>],
    [category |-> "symptom", severity |-> "moderate", keywords |-> <<
       <<"s","y","m","p","t","o","m">>, <<"f","e","v","e","r">>, <<"c","o","u","g","h">>,
       <<"h","e","a","d","a","c","h","e">>, <<"d","i","z","z","i","n","e","s","s">>,
       <<"n","a","u","s","e","a">>, <<"v","o","m","i","t","i","n","g">>,
       <<"d","i","a","r","r","h","e","a">>, <<"c","o","n","s","t","i","p","a","t","i","o","n">>,
       <<"r","a","s","h">>, <<"s","w","e","l","l","i","n","g">>,
       <<"i","n","f","l","a","m","m","a","t","i","o","n">> >>]
  >>

NEGATION_WORDS ==
  << <<"n","o">>, <<"n","o","t">>, <<"d","o","n","'","t">>, <<"d","o","e","s","n","'","t">>,
     <<"d","i","d","n","'","t">>, <<"w","o","n","'","t">>, <<"c","a","n","'","t">>,
     <<"i","s","n","'","t">>, <<"a","r","e","n","'","t">>, <<"w","a","s","n","'","t">>,
     <<"w","e","r","e","n","'","t">> >>

SEVERE_TERMS ==
  << <<"s","e","v","e","r","e">>, <<"t","e","r","r","i","b","l","e">>, <<"a","w","f","u","l">>,
     <<"e","x","t","r","e","m","e">>, <<"i","n","t","e","n","s","e">>,
     <<"u","n","b","e","a","r","a","b","l","e">>, <<"b","a","d">>,
     <<"r","e","a","l","l","y"," ","b","a","d">>, <<"v","e","r","y"," ","b","a","d">> >>

MILD_TERMS ==
  << <<"m","i","l","d">>, <<"s","l","i","g","h","t">>, <<"l","i","t","t","l","e">>,
     <<"b","i","t">>, <<"s","o","m","e","w","h","a","t">>, <<"m","o","d","e","r","a","t","e">> >>

MODERATE_TERMS ==
  << <<"m","o","d","e","r","a","t","e">>, <<"m","e","d","i","u","m">>, <<"o","k","a","y">>,
     <<"o","k">> >>

\* sentences.find(s => s.toLowerCase().includes(keyword)); <<>> stands for undefined
\* (no sentence is empty: SplitSentences drops the blank ones)
FindSentence(sentences, keyword) ==
  LET hits == {n \in 1..Len(sentences) : Includes(ToLowerCase(sentences[n]), keyword)}
  IN  IF hits = {} THEN <<>>
      ELSE sentences[CHOOSE n \in hits : \A m \in hits : n <= m]

\* the negation test on the sentence as typed, not lower-cased
IsExplicit_CaseSensitive(sentence) == ~MatchesAnyWord(sentence, NEGATION_WORDS)

IsExplicit(sentence) == ~MatchesAnyWord(ToLowerCase(sentence), NEGATION_WORDS)

ClassifySeverity(sentence, defaultSeverity) ==
  LET lower == ToLowerCase(sentence)
  IN  IF MatchesAnyWord(lower, SEVERE_TERMS) THEN "high"
      ELSE IF MatchesAnyWord(lower, MILD_TERMS) THEN "low"
      ELSE IF MatchesAnyWord(lower, MODERATE_TERMS) THEN "moderate"
      ELSE defaultSeverity

\* the duplicate check left out
AlreadyDetected_Never(found, category, keyword) == FALSE

\* the duplicate check comparing the description with the keyword instead of
\* searching it
AlreadyDetected_Equal(found, category, keyword) ==
  \E n \in 1..Len(found) :
    /\ found[n].category = category
    /\ ToLowerCase(found[n].description) = keyword

AlreadyDetected(found, category, keyword) ==
  \E n \in 1..Len(found) :
    /\ found[n].category = category
    /\ Includes(ToLowerCase(found[n].description), keyword)

\* the body of keywords.forEach for one keyword: the list after the keyword
ExtractKeyword(textLower, sentences, entry, keyword, found) ==
  IF ~Includes(textLower, keyword) THEN found
  ELSE LET containingSentence == FindSentence(sentences, keyword)
       IN  IF containingSentence = <<>> THEN found
           ELSE IF ~AlreadyDetected(found, entry.category, keyword)
                   /\ IsExplicit(containingSentence)
                THEN Append(found,
                       [category    |-> entry.category,
                        description |-> Trim(containingSentence),
                        severity    |-> ClassifySeverity(containingSentence, entry.severity),
                        confidence  |-> "explicit"])
                ELSE found

\* the (category, keyword) positions of HEALTH_KEYWORDS
KeywordIndex ==
  UNION {{<<c, k>> : k \in 1..Len(HEALTH_KEYWORDS[c].keywords)} :
           c \in 1..Len(HEALTH_KEYWORDS)}

KeywordAt(p) == HEALTH_KEYWORDS[p[1]].keywords[p[2]]

\* the order in which the nested forEach loops visit the keywords
VisitedBefore(p, q) == p[1] < q[1] \/ (p[1] = q[1] /\ p[2] <= q[2])

\* the nested forEach loops, over the keywords the text includes (for any other
\* keyword the loop body does nothing), in the loops' order
RECURSIVE ExtractFrom(_, _, _, _)
ExtractFrom(textLower, sentences, hits, found) ==
  IF hits = {} THEN found
  ELSE LET p == CHOOSE x \in hits : \A y \in hits : VisitedBefore(x, y)
           next == ExtractKeyword(textLower, sentences, HEALTH_KEYWORDS[p[1]],
                                  KeywordAt(p), found)
       IN  ExtractFrom(textLower, sentences, hits \ {p}, next)

extractHealthInfo(text) ==
  LET textLower == ToLowerCase(text)
      hits == {p \in KeywordIndex : Includes(textLower, KeywordAt(p))}
  IN  ExtractFrom(textLower, SplitSentences(text), hits, <<>>)

---------------------------------------------------------------------------
(* The Talk screen's dictation turn: what the speech recognizer delivers is *)
(* the environment's choice, here any sequence of at most MaxPieces of the  *)
(* pieces below, joined by single spaces (sentence punctuation is attached  *)
(* to the word before it).                                                  *)

MaxPieces == 4

Pieces ==
  << <<"p","a","i","n">>,
     <<"s","o","r","e">>,
     <<"N","o">>,
     <<"s","t","i","f","f">>,
     <<"k","n","o","t">>,
     <<"b","a","d">>,
     <<"m","o","d","e","r","a","t","e">>,
     <<".">> >>

Join(text, piece) ==
  IF Len(text) = 0 \/ piece[1] \in SentenceEnd THEN text \o piece
  ELSE text \o <<" ">> \o piece

HealthInit ==
  /\ isRecording = FALSE
  /\ transcript = <<>>
  /\ nPieces = 0
  /\ utterance = <<>>
  /\ detected = <<>>

startRecording ==
  /\ ~isRecording
  /\ isRecording' = TRUE
  /\ transcript' = <<>>
  /\ nPieces' = 0
  /\ utterance' = <<>>
  /\ detected' = <<>>

\* recognition.onresult with a final result
onresult(piece) ==
  /\ isRecording
  /\ nPieces < MaxPieces
  /\ transcript' = Join(transcript, piece)
  /\ nPieces' = nPieces + 1
  /\ UNCHANGED <<isRecording, utterance, detected>>

stopRecording ==
  /\ isRecording
  /\ isRecording' = FALSE
  /\ LET finalTranscript == Trim(transcript)
     IN  IF Len(finalTranscript) > 0
         THEN /\ utterance' = finalTranscript
              /\ detected' = extractHealthInfo(finalTranscript)
              /\ transcript' = <<>>
              /\ nPieces' = 0
         ELSE UNCHANGED <<utterance, detected, transcript, nPieces>>

HealthNext ==
  \/ startRecording
  \/ \E n \in 1..Len(Pieces) : onresult(Pieces[n])
  \/ stopRecording

---------------------------------------------------------------------------
(* Cognitive Linguistic Index scorer *)

\* text.match(/\b\w+\b/g) || []
Words(text) == RunsOf(text, WordChars)

\* the number of matches of /\b(w1|w2|...)\b/g in s
CountWordMatches(s, ws) ==
  Cardinality({i \in 0..Len(s) :
                 \E n \in 1..Len(ws) :
                   /\ OccursAt(s, ws[n], i)
                   /\ WordBoundary(s, i)
                   /\ WordBoundary(s, i + Len(ws[n]))})

RECURSIVE SumSeq(_)
SumSeq(xs) == IF Len(xs) = 0 THEN 0 ELSE Head(xs) + SumSeq(Tail(xs))

Min(a, b) == IF a <= b THEN a ELSE b
Max(a, b) == IF a >= b THEN a ELSE b

\* A score that need not be whole is the fraction num / den, den > 0.
Whole(n) == [num |-> n, den |-> 1]

\* Math.max(0, Math.min(100, q)) of a fraction
ClampScore(q) == [num |-> Max(0, Min(100 * q.den, q.num)), den |-> q.den]

\* Math.max(0, Math.min(100, n)) of a whole number
Clamp(n) == Max(0, Min(100, n))

\* the weights of syntacticComplexity and coherence exchanged
WEIGHTS_Exchanged ==
  [lexicalAccess |-> 20, fluency |-> 20, coherence |-> 15,
   syntacticComplexity |-> 20, processingSpeed |-> 15, attention |-> 10]

WEIGHTS ==
  [lexicalAccess |-> 20, fluency |-> 20, coherence |-> 20,
   syntacticComplexity |-> 15, processingSpeed |-> 15, attention |-> 10]

\* unique words / total words, times 100: the fraction's numerator over Len(words)
calculateTypeTokenRatio(words) ==
  IF Len(words) = 0 THEN 0
  ELSE 100 * Cardinality({words[i] : i \in 1..Len(words)})

COMMON_WORDS ==
  { <<"t","h","e">>, <<"a">>, <<"a","n">>, <<"a","n","d">>, <<"o","r">>, <<"b","u","t">>,
    <<"i","n">>, <<"o","n">>, <<"a","t">>, <<"t","o">>, <<"f","o","r">>, <<"o","f">>,
    <<"w","i","t","h">>, <<"b","y">>, <<"i","s">>, <<"a","r","e">>, <<"w","a","s">>,
    <<"w","e","r","e">>, <<"b","e">>, <<"b","e","e","n">>, <<"h","a","v","e">>, <<"h","a","s">>,
    <<"h","a","d">>, <<"d","o">>, <<"d","o","e","s">>, <<"d","i","d">>, <<"w","i","l","l">>,
    <<"w","o","u","l","d">>, <<"c","o","u","l","d">>, <<"s","h","o","u","l","d">>,
    <<"m","a","y">>, <<"m","i","g","h","t">>, <<"c","a","n">>, <<"t","h","i","s">>,
    <<"t","h","a","t">>, <<"t","h","e","s","e">>, <<"t","h","o","s","e">>, <<"i">>,
    <<"y","o","u">>, <<"h","e">>, <<"s","h","e">>, <<"i","t">>, <<"w","e">>, <<"t","h","e","y">> }

CLAUSE_MARKERS ==
  << <<"a","n","d">>, <<"o","r">>, <<"b","u","t">>, <<"b","e","c","a","u","s","e">>,
     <<"s","i","n","c","e">>, <<"w","h","e","n">>, <<"w","h","e","r","e">>,
     <<"w","h","i","c","h">>, <<"t","h","a","t">>, <<"w","h","o">>, <<"w","h","o","m">>,
     <<"w","h","o","s","e">> >>

REFERENTIAL_WORDS ==
  { <<"t","h","a","t">>, <<"t","h","i","s">>, <<"i","t">>, <<"t","h","e","y">>,
    <<"t","h","e","m">>, <<"t","h","o","s","e">>, <<"t","h","e","s","e">>, <<"h","e">>,
    <<"s","h","e">>, <<"h","i","m">>, <<"h","e","r">> }

\* complexityScore / words.length * 20, capped at 100: the numerator over Len(words)
calculateVocabularyComplexity(words) ==
  IF Len(words) = 0 THEN 0
  ELSE LET idx == 1..Len(words)
           complexityScore ==
               2 * Cardinality({i \in idx : Len(words[i]) > 6})
             + Cardinality({i \in idx : Len(words[i]) <= 6 /\ Len(words[i]) > 4})
             + Cardinality({i \in idx : words[i] \notin COMMON_WORDS})
       IN  Min(100 * Len(words), complexityScore * 20)

\* the number of distinct words that occur more than limit times
HighFrequencyWords(words, limit) ==
  Cardinality({w \in {words[i] : i \in 1..Len(words)} :
                 Cardinality({i \in 1..Len(words) : words[i] = w}) > limit})

\* typeTokenRatio * 0.4 + vocabularyComplexity * 0.6 - substitutionPenalty for the
\* lower-cased words of the text, as a fraction over 10 * Len(words)
LexicalBlend(words) ==
  IF Len(words) = 0 THEN Whole(0 - Min(20, HighFrequencyWords(words, 5) * 2))
  ELSE [num |-> 4 * calculateTypeTokenRatio(words)
                + 6 * calculateVocabularyComplexity(words)
                - 10 * Len(words) * Min(20, HighFrequencyWords(words, 5) * 2),
        den |-> 10 * Len(words)]

\* the lower clamp Math.max(0, ...) left out
NoFloor(q) == [num |-> Min(100 * q.den, q.num), den |-> q.den]

calculateLexicalAccess_NoFloor(text, pauses, duration) ==
  NoFloor(LexicalBlend(Words(ToLowerCase(text))))

calculateLexicalAccess(text, pauses, duration) ==
  ClampScore(LexicalBlend(Words(ToLowerCase(text))))

\* calculateFluency for a text of wordCount words
FluencyOf(wordCount, pauses, duration, fillerWords) ==
  IF wordCount = 0 \/ duration = 0 THEN 0
  ELSE Clamp(100
         \* wordsPerMinute = wordCount / duration * 60
         - (IF wordCount * 60 < 100 * duration THEN 20
            ELSE IF wordCount * 60 > 250 * duration THEN 15 ELSE 0)
         \* pauseFrequency = pauses / duration * 60 if duration > 0, else 0
         - (IF duration > 0 /\ pauses * 60 > 10 * duration THEN 30
            ELSE IF duration > 0 /\ pauses * 60 > 5 * duration THEN 15 ELSE 0)
         \* fillerDensity = fillerWords / wordCount * 100
         - (IF fillerWords * 100 > 10 * wordCount THEN 25
            ELSE IF fillerWords * 100 > 5 * wordCount THEN 10 ELSE 0))

calculateFluency(text, pauses, duration, fillerWords) ==
  FluencyOf(Len(Words(text)), pauses, duration, fillerWords)

\* the score for n sentences with totalWords words and totalClauses clauses;
\* avgSentenceLength = totalWords / n, avgClausesPerSentence = totalClauses / n
SyntaxScore(n, totalWords, totalClauses, hasSubjectVerb) ==
  Clamp((IF totalWords > 15 * n THEN 40
         ELSE IF totalWords > 10 * n THEN 30
         ELSE IF totalWords > 5 * n THEN 20 ELSE 0)
      + (IF totalClauses > 2 * n THEN 40
         ELSE IF 2 * totalClauses > 3 * n THEN 30
         ELSE IF totalClauses > n THEN 20 ELSE 0)
      + (IF hasSubjectVerb THEN 20 ELSE 0))

\* wordCounts[i] is the number of words of sentence i
SyntaxOf(sentences, wordCounts) ==
  IF Len(sentences) = 0 THEN 0
  ELSE SyntaxScore(Len(sentences),
         SumSeq(wordCounts),
         SumSeq([i \in 1..Len(sentences) |->
                   CountWordMatches(ToLowerCase(sentences[i]), CLAUSE_MARKERS) + 1]),
         \E i \in 1..Len(sentences) : wordCounts[i] >= 3)

SyntaxOfSentences(sentences) ==
  SyntaxOf(sentences, [i \in 1..Len(sentences) |-> Len(Words(sentences[i]))])

calculateSyntacticComplexity(text) == SyntaxOfSentences(SplitSentences(text))

UserMessages(messages) == SelectSeq(messages, LAMBDA m : m.role = "user")

\* words.slice(0, 5).join(' ').split(' ') of the lower-cased words of a message:
\* the first five words; the empty topic splits into one empty word
TopicWords(words) ==
  IF Len(words) = 0 THEN << <<>> >> ELSE SubSeq(words, 1, Min(5, Len(words)))

\* prevWords.filter(w => currWords.includes(w)).length
CommonCount(prevWords, currWords) ==
  Cardinality({i \in 1..Len(prevWords) :
                 \E j \in 1..Len(currWords) : currWords[j] = prevWords[i]})

\* topics[i] is the topic of message i, userMessages the lower-cased user messages
CoherenceOf(n, topics, userMessages) ==
  Clamp(100
    - (IF 2 * Cardinality({i \in 2..n : CommonCount(topics[i - 1], topics[i]) < 2}) > n
       THEN 30
       ELSE IF 10 * Cardinality({i \in 2..n : CommonCount(topics[i - 1], topics[i]) < 2})
                 > 3 * n
       THEN 15 ELSE 0)
    - (IF 2 * Len(userMessages)
            > 3 * Cardinality({userMessages[i] : i \in 1..Len(userMessages)})
       THEN 20 ELSE 0))

LowerContents(messages) ==
  [i \in 1..Len(messages) |-> ToLowerCase(messages[i].content)]

\* the early return for fewer than two messages left out
calculateCoherence_NoDefault(messages) ==
  CoherenceOf(Len(messages),
    [i \in 1..Len(messages) |-> TopicWords(Words(ToLowerCase(messages[i].content)))],
    LowerContents(UserMessages(messages)))

calculateCoherence(messages) ==
  IF Len(messages) < 2 THEN 50
  ELSE CoherenceOf(Len(messages),
         [i \in 1..Len(messages) |-> TopicWords(Words(ToLowerCase(messages[i].content)))],
         LowerContents(UserMessages(messages)))

\* the positions of the user messages that directly follow a Sage message
Responses(messages) ==
  {i \in 2..Len(messages) : messages[i].role = "user" /\ messages[i - 1].role = "sage"}

\* their latencies in milliseconds, in order
Latencies(messages, at) ==
  [n \in 1..Cardinality(at) |->
     messages[CHOOSE i \in at : Cardinality({j \in at : j <= i}) = n].timestamp
     - messages[(CHOOSE i \in at : Cardinality({j \in at : j <= i}) = n) - 1].timestamp]

\* the score for users user messages with the given response latencies;
\* avgLatencySeconds = totalLatency / (users - 1) / 1000
SpeedScore(users, k, latencies, totalLatency) ==
  Clamp(100
    - (IF totalLatency > 10000 * (users - 1) THEN 40
       ELSE IF totalLatency > 5000 * (users - 1) THEN 25
       ELSE IF totalLatency > 3000 * (users - 1) THEN 10
       ELSE IF 2 * totalLatency < 1000 * (users - 1) THEN 15
       ELSE 0)
    \* stdDev > mean * 0.5, with mean = totalLatency / k >= 0 and variance the
    \* sum of (v - mean)^2 over k: both sides squared and scaled by 4 k^3
    - (IF k > 1 /\ 4 * SumSeq([n \in 1..k |->
                                  (k * latencies[n] - totalLatency)
                                    * (k * latencies[n] - totalLatency)])
                     > k * totalLatency * totalLatency
       THEN 10 ELSE 0))

SpeedOf(users, latencies) ==
  IF users < 2 THEN 50
  ELSE SpeedScore(users, Len(latencies), latencies, SumSeq(latencies))

calculateProcessingSpeed(messages, duration) ==
  IF Len(messages) < 2 \/ duration = 0 THEN 50
  ELSE SpeedOf(Len(UserMessages(messages)), Latencies(messages, Responses(messages)))

\* the number of user messages after the first that refer back: a referential word
\* somewhere in the message, or more than two words longer than three letters
\* shared with the user message before
References(users, lower, wordsOf) ==
  Cardinality({i \in 2..users :
    \/ \E w \in REFERENTIAL_WORDS : Includes(lower[i], w)
    \/ Cardinality({a \in 1..Len(wordsOf[i]) :
                      /\ Len(wordsOf[i][a]) > 3
                      /\ \E b \in 1..Len(wordsOf[i - 1]) :
                            wordsOf[i - 1][b] = wordsOf[i][a]}) > 2})

\* referenceRate = references / (users - 1), or 0 without two user messages;
\* highRepWords counts the words of allUserText that occur more than ten times
AttentionScore(users, references, highRepWords) ==
  Clamp(100
    - (IF users <= 1 \/ 5 * references < users - 1 THEN 30
       ELSE IF 5 * references < 2 * (users - 1) THEN 15 ELSE 0)
    - (IF highRepWords > 5 THEN 20 ELSE 0))

\* the words of allUserText are the user messages' words, one message after the
\* other (the messages are joined by a space)
AttentionOf(users, lower, wordsOf) ==
  AttentionScore(users, References(users, lower, wordsOf),
                 HighFrequencyWords(JoinAll(wordsOf, <<>>), 10))

AttentionOfLower(lower) ==
  AttentionOf(Len(lower), lower, [i \in 1..Len(lower) |-> Words(lower[i])])

calculateAttention(messages) ==
  IF Len(messages) < 4 THEN 50
  ELSE AttentionOfLower(LowerContents(UserMessages(messages)))

\* Math.round of the fraction num / den >= 0
Round(num, den) == (2 * num + den) \div (2 * den)

\* the weighted sum of the sub-scores, as a fraction over 100 * lexicalAccess.den
WeightedSum(b, w) ==
  [num |-> b.lexicalAccess.num * w.lexicalAccess
           + b.lexicalAccess.den
               * (b.fluency * w.fluency
                  + b.syntacticComplexity * w.syntacticComplexity
                  + b.coherence * w.coherence
                  + b.processingSpeed * w.processingSpeed
                  + b.attention * w.attention),
   den |-> 100 * b.lexicalAccess.den]

FullText(messages) ==
  JoinAll([i \in 1..Len(messages) |-> messages[i].content], <<" ">>)

Breakdown(messages, fullText, duration, pauses, fillerWords) ==
  [lexicalAccess       |-> calculateLexicalAccess(fullText, pauses, duration),
   fluency             |-> calculateFluency(fullText, pauses, duration, fillerWords),
   syntacticComplexity |-> calculateSyntacticComplexity(fullText),
   coherence           |-> calculateCoherence(messages),
   processingSpeed     |-> calculateProcessingSpeed(messages, duration),
   attention           |-> calculateAttention(messages)]

\* Math.round of the weighted sum, clamped
Overall(weighted) == Clamp(Round(weighted.num, weighted.den))

\* the overall score lowered by one in every call after the first
ResultOf_CountingCalls(breakdown) ==
  [overall |-> IF cliResult = [overall |-> -1]
               THEN Overall(WeightedSum(breakdown, WEIGHTS))
               ELSE Max(0, Overall(WeightedSum(breakdown, WEIGHTS)) - 1),
   breakdown |-> breakdown]

ResultOf(breakdown) ==
  [overall |-> Overall(WeightedSum(breakdown, WEIGHTS)), breakdown |-> breakdown]

calculateCLIScore(messages, duration, pauses, fillerWords) ==
  ResultOf(Breakdown(messages, FullText(messages), duration, pauses, fillerWords))

---------------------------------------------------------------------------
(* Scoring a transcript: the caller's message list, duration, pause count and  *)
(* filler-word count are inputs, here any list of at most MaxMessages messages *)
(* with the contents and latencies below.                                      *)

MaxMessages == 4

SAGE_INITIAL ==
  <<"H","i","!"," ","H","o","w"," ","a","r","e"," ","y","o","u"," ","d","o","i","n","g",
    " ","t","o","d","a","y","?">>

\* three common short words, seven times each
RepetitiveContent ==
  <<"a"," ","I"," ","i","t"," ","a"," ","I"," ","i","t"," ","a"," ","I"," ","i","t"," ",
    "a"," ","I"," ","i","t"," ","a"," ","I"," ","i","t"," ","a"," ","I"," ","i","t"," ",
    "a"," ","I"," ","i","t">>

GardenContent ==
  <<"I"," ","r","e","s","t","e","d"," ","i","n"," ","t","h","e"," ","g","a","r","d","e",
    "n"," ","b","e","c","a","u","s","e"," ","i","t"," ","w","a","s"," ","w","a","r","m",
    ".">>

KneeContent ==
  <<"M","y"," ","k","n","e","e"," ","h","u","r","t","s",".">>

\* the user's turns: what was said, and how long after the message before
UserTurns ==
  { [content |-> RepetitiveContent, latency |-> 2000],
    [content |-> GardenContent,     latency |-> 12000],
    [content |-> KneeContent,       latency |-> 2000] }

\* the timing arguments: duration in seconds, pauses, fillerWords
Timings ==
  { [duration |-> 0,  pauses |-> 0,  fillerWords |-> 0],
    [duration |-> 60, pauses |-> 0,  fillerWords |-> 0],
    [duration |-> 60, pauses |-> 11, fillerWords |-> 3],
    [duration |-> 5,  pauses |-> 0,  fillerWords |-> 1] }

NoScore == [overall |-> -1]

CLIInit ==
  /\ cliMessages = <<>>
  /\ cliArgs = [duration |-> 0, pauses |-> 0, fillerWords |-> 0]
  /\ cliResult = NoScore
  /\ cliEarlier = NoScore

Now == IF Len(cliMessages) = 0 THEN 0 ELSE cliMessages[Len(cliMessages)].timestamp

\* one more message in the transcript, latency milliseconds after the last
AddMessage(role, content, latency) ==
  /\ cliResult = NoScore
  /\ Len(cliMessages) < MaxMessages
  /\ cliMessages' = Append(cliMessages,
                        [role |-> role, content |-> content, timestamp |-> Now + latency])
  /\ UNCHANGED <<cliArgs, cliResult, cliEarlier>>

Score(duration, pauses, fillerWords) ==
  /\ cliResult = NoScore
  /\ cliArgs' = [duration |-> duration, pauses |-> pauses, fillerWords |-> fillerWords]
  /\ cliResult' = calculateCLIScore(cliMessages, duration, pauses, fillerWords)
  /\ UNCHANGED <<cliMessages, cliEarlier>>

\* a second call with the arguments of the first
ScoreAgain ==
  /\ cliResult # NoScore
  /\ cliEarlier = NoScore
  /\ cliEarlier' = cliResult
  /\ cliResult' = calculateCLIScore(cliMessages, cliArgs.duration, cliArgs.pauses,
                                    cliArgs.fillerWords)
  /\ UNCHANGED <<cliMessages, cliArgs>>

CLINext ==
  \/ AddMessage("sage", SAGE_INITIAL, 1000)
  \/ \E turn \in UserTurns : AddMessage("user", turn.content, turn.latency)
  \/ \E t \in Timings : Score(t.duration, t.pauses, t.fillerWords)
  \/ ScoreAgain
---------------------------------------------------------------------------
(* The Sage response wrapper: generateSageResponse asks the language model  *)
(* for a reply and falls back to a canned response when it has no usable    *)
(* key, when the request throws and when the reply is empty.  The module is *)
(* lib/openaiApi (the one the Talk screen imports) or lib/geminiApi.        *)

PAIN_RESPONSE ==
  <<"I","'","m"," ","s","o","r","r","y"," ","t","o"," ","h","e","a","r"," ","t","h","a",
    "t","."," ","C","a","n"," ","y","o","u"," ","t","e","l","l"," ","m","e"," ","m","o",
    "r","e"," ","a","b","o","u","t"," ","w","h","a","t","'","s"," ","b","o","t","h","e",
    "r","i","n","g"," ","y","o","u","?">>

SLEEP_RESPONSE ==
  <<"H","o","w"," ","h","a","v","e"," ","y","o","u"," ","b","e","e","n"," ","s","l","e",
    "e","p","i","n","g"," ","l","a","t","e","l","y","?">>

MOOD_RESPONSE ==
  <<"H","o","w"," ","a","r","e"," ","y","o","u"," ","f","e","e","l","i","n","g"," ","t",
    "o","d","a","y","?">>

GOOD_RESPONSE ==
  <<"T","h","a","t","'","s"," ","w","o","n","d","e","r","f","u","l"," ","t","o"," ","h",
    "e","a","r","!"," ","W","h","a","t"," ","h","a","v","e"," ","y","o","u"," ","b","e",
    "e","n"," ","u","p"," ","t","o","?">>

BAD_RESPONSE ==
  <<"I","'","m"," ","s","o","r","r","y"," ","t","o"," ","h","e","a","r"," ","t","h","a",
    "t","."," ","W","o","u","l","d"," ","y","o","u"," ","l","i","k","e"," ","t","o"," ",
    "t","a","l","k"," ","a","b","o","u","t"," ","i","t","?">>

QUESTION_RESPONSE ==
  <<"T","h","a","t","'","s"," ","a","n"," ","i","n","t","e","r","e","s","t","i","n","g",
    " ","q","u","e","s","t","i","o","n","."," ","W","h","a","t"," ","d","o"," ","y","o",
    "u"," ","t","h","i","n","k"," ","a","b","o","u","t"," ","t","h","a","t","?">>

\* the default natural responses
responses ==
  << <<"T","e","l","l"," ","m","e"," ","m","o","r","e"," ","a","b","o","u","t"," ","t",
       "h","a","t",".">>,
     <<"T","h","a","t"," ","s","o","u","n","d","s"," ","i","n","t","e","r","e","s","t",
       "i","n","g","."," ","W","h","a","t"," ","e","l","s","e"," ","i","s"," ","o","n",
       " ","y","o","u","r"," ","m","i","n","d","?">>,
     <<"I","'","d"," ","l","i","k","e"," ","t","o"," ","h","e","a","r"," ","m","o","r",
       "e",".">>,
     <<"H","o","w"," ","d","o","e","s"," ","t","h","a","t"," ","m","a","k","e"," ","y",
       "o","u"," ","f","e","e","l","?">>,
     <<"W","h","a","t"," ","e","l","s","e"," ","w","o","u","l","d"," ","y","o","u"," ",
       "l","i","k","e"," ","t","o"," ","s","h","a","r","e","?">>,
     <<"T","h","a","t","'","s"," ","r","e","a","l","l","y"," ","n","i","c","e"," ","t",
       "o"," ","h","e","a","r",".">>,
     <<"I"," ","u","n","d","e","r","s","t","a","n","d","."," ","C","a","n"," ","y","o",
       "u"," ","t","e","l","l"," ","m","e"," ","m","o","r","e","?">> >>

PAIN_WORDS ==
  << <<"p","a","i","n">>, <<"a","c","h","e">>, <<"h","u","r","t">>, <<"s","o","r","e">> >>

SLEEP_WORDS ==
  << <<"s","l","e","e","p">>, <<"t","i","r","e","d">>, <<"e","x","h","a","u","s","t","e","d">> >>

MOOD_WORDS ==
  << <<"m","o","o","d">>, <<"f","e","e","l","i","n","g">>, <<"f","e","e","l">> >>

GOOD_WORDS ==
  << <<"g","o","o","d">>, <<"g","r","e","a","t">>, <<"f","i","n","e">>, <<"w","e","l","l">>, <<"o","k","a","y">>, <<"o","k">> >>

BAD_WORDS ==
  << <<"b","a","d">>, <<"n","o","t"," ","g","o","o","d">>, <<"t","e","r","r","i","b","l","e">>, <<"a","w","f","u","l">> >>

\* Math.floor(Math.random() * responses.length)
RandomIndex == 0..(Len(responses) - 1)

\* getFallbackResponse, random being the index Math.random yields
getFallbackResponse(userMessage, random) ==
  IF MatchesAnyWord(ToLowerCase(userMessage), PAIN_WORDS) THEN PAIN_RESPONSE
  ELSE IF MatchesAnyWord(ToLowerCase(userMessage), SLEEP_WORDS) THEN SLEEP_RESPONSE
  ELSE IF MatchesAnyWord(ToLowerCase(userMessage), MOOD_WORDS) THEN MOOD_RESPONSE
  ELSE IF MatchesAnyWord(ToLowerCase(userMessage), GOOD_WORDS) THEN GOOD_RESPONSE
  ELSE IF MatchesAnyWord(ToLowerCase(userMessage), BAD_WORDS) THEN BAD_RESPONSE
  ELSE IF Includes(ToLowerCase(userMessage), <<"?">>) THEN QUESTION_RESPONSE
  ELSE responses[random + 1]

StartsWith(s, prefix) == OccursAt(s, prefix, 0)

\* the body of a key of the usual length
KeyBody == [i \in 1..48 |-> "x"]

ShortKey ==
  <<"s","k","-","t","e","s","t">>

ValidKey == <<"s","k","-">> \o KeyBody

\* the values of the environment variable: unset, blank, too short, not an
\* OpenAI key, a well-formed key, and one with white space around it
EnvKeys ==
  { <<>>, <<" ">>, ShortKey, <<"p","k","-">> \o KeyBody, ValidKey,
    <<" ">> \o ValidKey \o <<"\n">> }

Providers == {"openai", "gemini"}

\* API_KEY: process.env.NEXT_PUBLIC_OPENAI_API_KEY?.trim() || '', and
\* process.env.NEXT_PUBLIC_GEMINI_API_KEY || ''
ApiKeyOf(p, envKey) == IF p = "openai" THEN Trim(envKey) ELSE envKey

\* isValidApiKey of lib/openaiApi; lib/geminiApi has no format check
isValidApiKey(p, key) ==
  \/ p = "gemini"
  \/ Len(key) > 0 /\ StartsWith(key, <<"s","k","-">>) /\ Len(key) > 40

\* the guard !API_KEY || !isValidApiKey || !openai  (!API_KEY || !model)
NotConfigured ==
  Len(API_KEY) = 0 \/ ~isValidApiKey(provider, API_KEY) \/ ~clientReady

\* what the user said
UserMessages_Sage ==
  { <<"I"," ","h","u","r","t"," ","m","y"," ","k","n","e","e">>,
    <<"M","y"," ","k","n","e","e"," ","h","u","r","t","s">>,
    <<"I"," ","a","m"," ","s","o"," ","t","i","r","e","d">>,
    <<"I"," ","f","e","e","l"," ","f","i","n","e">>,
    <<"N","o","t"," ","g","o","o","d">>,
    <<"I","t"," ","w","a","s"," ","a","w","f","u","l">>,
    <<"W","h","y","?">>,
    <<"W","e"," ","w","e","n","t"," ","o","u","t">> }

\* what the model may answer
CompletionTexts ==
  { <<>>,
    <<" ","\n">>,
    <<"H","e","l","l","o"," ","t","h","e","r","e",".">>,
    <<" ","T","h","a","t"," ","s","o","u","n","d","s"," ","l","o","v","e","l","y",".",
      " ">> }

NoCompletion == [kind |-> "none", hasContent |-> FALSE, content |-> <<>>]

\* the outcomes of the request: it throws, it returns no choice or a null
\* content, or it returns a text
Completions ==
  { [kind |-> "returned", hasContent |-> FALSE, content |-> <<>>] }
  \cup { [kind |-> "returned", hasContent |-> TRUE, content |-> c] : c \in CompletionTexts }

\* completion.choices[0]?.message?.content?.trim(), <<>> standing for undefined
\* as well: both are falsy
TextOf(c) == IF c.hasContent THEN Trim(c.content) ELSE <<>>

\* the emptiness test left out
IsEmptyText_Never(text) == FALSE

\* !text || text.length === 0
IsEmptyText(text) == Len(text) = 0

SageInit ==
  /\ provider = "openai"
  /\ API_KEY = <<>>
  /\ clientReady = FALSE
  /\ sageStatus = "unloaded"
  /\ sageMessage = <<>>
  /\ completion = NoCompletion
  /\ sageReply = <<>>

\* the module is loaded: the key is read and the client constructed, which may
\* throw (the error is caught and the client stays null)
loadModule(p, envKey, constructed) ==
  /\ sageStatus = "unloaded"
  /\ provider' = p
  /\ API_KEY' = ApiKeyOf(p, envKey)
  /\ clientReady' = (Len(ApiKeyOf(p, envKey)) > 0 /\ constructed)
  /\ sageStatus' = "ready"
  /\ UNCHANGED <<sageMessage, completion, sageReply>>

\* generateSageResponse up to its await
generateSageResponse(userMessage, random) ==
  /\ sageStatus \in {"ready", "resolved"}
  /\ sageMessage' = userMessage
  /\ completion' = NoCompletion
  /\ IF NotConfigured
     THEN /\ sageReply' = getFallbackResponse(userMessage, random)
          /\ sageStatus' = "resolved"
     ELSE /\ sageReply' = <<>>
          /\ sageStatus' = "awaiting"
  /\ UNCHANGED <<provider, API_KEY, clientReady>>

\* the request returned
completionReturned(c, random) ==
  /\ sageStatus = "awaiting"
  /\ completion' = c
  /\ sageReply' = IF IsEmptyText(TextOf(c)) THEN getFallbackResponse(sageMessage, random)
                  ELSE TextOf(c)
  /\ sageStatus' = "resolved"
  /\ UNCHANGED <<provider, API_KEY, clientReady, sageMessage>>

\* the request threw, or reading the reply did
completionThrew(random) ==
  /\ sageStatus = "awaiting"
  /\ completion' = [kind |-> "threw", hasContent |-> FALSE, content |-> <<>>]
  /\ sageReply' = getFallbackResponse(sageMessage, random)
  /\ sageStatus' = "resolved"
  /\ UNCHANGED <<provider, API_KEY, clientReady, sageMessage>>

SageNext ==
  \/ \E p \in Providers, envKey \in EnvKeys, constructed \in BOOLEAN :
       loadModule(p, envKey, constructed)
  \/ \E userMessage \in UserMessages_Sage, random \in RandomIndex :
       generateSageResponse(userMessage, random)
  \/ \E c \in Completions, random \in RandomIndex : completionReturned(c, random)
  \/ \E random \in RandomIndex : completionThrew(random)
---------------------------------------------------------------------------
(* The sync pass of App.tsx: a second after the last change of the store,    *)
(* saveUserData copies what the hosted store lacks.  It takes the store's    *)
(* state once, updates the user row, and then for every entity type fetches  *)
(* the user's rows and inserts the local items whose id was not fetched.     *)
(* Every await of the pass is a step; the rows of the hosted store and the   *)
(* local arrays may change in between.                                       *)

\* the entity types in the order saveUserData goes through them
Types ==
  <<"talkSessions", "healthCards", "speechAnalyses", "gameResults", "insights",
    "memorySessions">>

TypeSet == {Types[k] : k \in 1..Len(Types)}

\* the total number of items in the local arrays
MaxLocal == 2

\* the number of calls of the hosted store that fail in one pass
MaxFailures == 1

ItemIds == {"a", "b"}

\* a local item: its id and, for a memory session, whether chapter and
\* timestamp are set
Items == [id : ItemIds, wellFormed : BOOLEAN]

IdsOf(rows) == {r.id : r \in rows}

ItemCount(arrays) ==
  SumSeq([k \in 1..Len(Types) |-> Len(arrays[Types[k]])])

TABLE_NOT_FOUND ==
  <<"C","o","u","l","d"," ","n","o","t"," ","f","i","n","d"," ","t","h","e"," ","t","a",
    "b","l","e">>

DOES_NOT_EXIST ==
  <<"d","o","e","s"," ","n","o","t"," ","e","x","i","s","t">>

SchemaCacheError ==
  <<"C","o","u","l","d"," ","n","o","t"," ","f","i","n","d"," ","t","h","e"," ","t","a",
    "b","l","e"," ","i","n"," ","t","h","e"," ","s","c","h","e","m","a"," ","c","a","c",
    "h","e">>

RelationError ==
  <<"r","e","l","a","t","i","o","n"," ","p","u","b","l","i","c",".","g","a","m","e","_",
    "r","e","s","u","l","t","s"," ","d","o","e","s"," ","n","o","t"," ","e","x","i","s",
    "t">>

NetworkError ==
  <<"T","y","p","e","E","r","r","o","r",":"," ","F","a","i","l","e","d"," ","t","o"," ",
    "f","e","t","c","h">>

DuplicateKeyError ==
  <<"d","u","p","l","i","c","a","t","e"," ","k","e","y"," ","v","a","l","u","e"," ","v",
    "i","o","l","a","t","e","s"," ","u","n","i","q","u","e"," ","c","o","n","s","t","r",
    "a","i","n","t">>

\* errorMessage.includes('Could not find the table') ||
\* errorMessage.includes('does not exist')
TableMissing(errorMessage) ==
  Includes(errorMessage, TABLE_NOT_FOUND) \/ Includes(errorMessage, DOES_NOT_EXIST)

Succeeded == [ok |-> TRUE, message |-> <<>>]

\* what a call of the hosted store may come back with
Outcomes ==
  {Succeeded} \cup {[ok |-> FALSE, message |-> e] :
                       e \in {SchemaCacheError, RelationError, NetworkError}}

\* what the create of a store action comes back with
DirectOutcomes == {Succeeded, [ok |-> FALSE, message |-> NetworkError]}

\* an insert into a table without a primary key
InsertOutcome_NoPrimaryKey(rows, id, outcome) == outcome

\* an insert: the id is the primary key of the table
InsertOutcome(rows, id, outcome) ==
  IF outcome.ok /\ id \in IdsOf(rows) THEN [ok |-> FALSE, message |-> DuplicateKeyError]
  ELSE outcome

NoneFetched == [t \in TypeSet |-> "none"]
Nothing == [t \in TypeSet |-> {}]

SyncInit ==
  /\ localItems = [t \in TypeSet |-> <<>>]
  /\ remoteRows = Nothing
  /\ directPending = Nothing
  /\ syncPc = "idle"
  /\ syncType = 0
  /\ syncItem = 0
  /\ snapshot = [t \in TypeSet |-> <<>>]
  /\ existingIds = {}
  /\ userUpdate = "none"
  /\ fetched = NoneFetched
  /\ fetchedIds = Nothing
  /\ createCalls = Nothing
  /\ failures = 0

passVars ==
  <<syncPc, syncType, syncItem, snapshot, existingIds, userUpdate, fetched, fetchedIds,
    createCalls, failures>>

LocalIds(t) == {localItems[t][n].id : n \in 1..Len(localItems[t])}

\* the entity types whose store action calls create itself: addHealthCard
\* and addMemorySession
DirectTypes == {"healthCards", "memorySessions"}

\* a store action appends an item to one of the arrays, before the pass (the
\* pass goes on with the arrays it took at its start); addHealthCard and
\* addMemorySession call create as well and do not wait for it
addItem(t, item) ==
  /\ syncPc = "idle"
  /\ ItemCount(localItems) < MaxLocal
  /\ item.id \notin LocalIds(t)
  /\ t # "memorySessions" => item.wellFormed
  /\ localItems' = [localItems EXCEPT ![t] = Append(@, item)]
  /\ directPending' = IF t \in DirectTypes
                      THEN [directPending EXCEPT ![t] = @ \cup {item.id}]
                      ELSE directPending
  /\ UNCHANGED <<remoteRows, passVars>>

\* the create called by addHealthCard or addMemorySession comes back, before
\* or during the pass
directCreate(t, id, outcome) ==
  /\ id \in directPending[t]
  /\ directPending' = [directPending EXCEPT ![t] = @ \ {id}]
  /\ remoteRows' = [remoteRows EXCEPT ![t] =
                      IF InsertOutcome(@, id, outcome).ok
                      THEN @ \cup {[id |-> id, origin |-> "direct"]}
                      ELSE @]
  /\ UNCHANGED <<localItems, passVars>>

\* a row of the user with the id of a local item is written by another pass
\* (a second tab of the same user), before or during the pass; for the types
\* with a create of their own that create is the other writer
otherInsert(t, id) ==
  /\ t \notin DirectTypes
  /\ id \in LocalIds(t)
  /\ id \notin IdsOf(remoteRows[t])
  /\ remoteRows' = [remoteRows EXCEPT ![t] = @ \cup {[id |-> id, origin |-> "other"]}]
  /\ UNCHANGED <<localItems, directPending, passVars>>

\* the debounce timer fires: saveUserData starts and takes useStore.getState()
saveUserData ==
  /\ syncPc = "idle"
  /\ ItemCount(localItems) > 0
  /\ syncPc' = "user"
  /\ syncType' = 0
  /\ syncItem' = 0
  /\ snapshot' = localItems
  /\ existingIds' = {}
  /\ userUpdate' = "none"
  /\ fetched' = NoneFetched
  /\ fetchedIds' = Nothing
  /\ createCalls' = Nothing
  /\ failures' = 0
  /\ UNCHANGED <<localItems, remoteRows, directPending>>

\* the ids fetched are not looked at: every item is created
NextCreate_IgnoreExisting(t, array, from, existing) ==
  IF from <= Len(array) THEN from ELSE 0

\* the item of the array from position from on that the loop awaits a create
\* for: the first whose id is not in existing and, for a memory session, that
\* passes the validation; 0 if the loop ends before
NextCreate(t, array, from, existing) ==
  IF \E n \in from..Len(array) :
       array[n].id \notin existing /\ (t = "memorySessions" => array[n].wellFormed)
  THEN CHOOSE n \in from..Len(array) :
         /\ array[n].id \notin existing /\ (t = "memorySessions" => array[n].wellFormed)
         /\ \A m \in from..(n - 1) :
              ~(array[m].id \notin existing
                /\ (t = "memorySessions" => array[m].wellFormed))
  ELSE 0

Returned == [pc |-> "done", type |-> 0, item |-> 0]

\* the block of entity type k is left: the next block fetches, the last one
\* ends the pass
NextBlock(k) ==
  IF k < Len(Types) THEN [pc |-> "fetch", type |-> k + 1, item |-> 0] ELSE Returned

\* the loop of entity type k goes on from position from
Continue(k, from, existing) ==
  IF NextCreate(Types[k], snapshot[Types[k]], from, existing) > 0
  THEN [pc |-> "create", type |-> k,
        item |-> NextCreate(Types[k], snapshot[Types[k]], from, existing)]
  ELSE NextBlock(k)

\* the call comes back with the outcome
Call(outcome) ==
  /\ ~outcome.ok => failures < MaxFailures
  /\ failures' = IF outcome.ok THEN failures ELSE failures + 1

Goto(at) ==
  /\ syncPc' = at.pc
  /\ syncType' = at.type
  /\ syncItem' = at.item

\* the returns that end the whole pass: the table is reported missing
FetchReturns(t, outcome) ==
  /\ ~outcome.ok
  /\ t \in {"gameResults", "memorySessions"}
  /\ TableMissing(outcome.message)

CreateReturns(t, outcome) ==
  /\ ~outcome.ok
  /\ t = "memorySessions"
  /\ TableMissing(outcome.message)

\* await userService.update(currentUserId, updates); an error is logged
updateUser(outcome) ==
  /\ syncPc = "user"
  /\ Call(outcome)
  /\ userUpdate' = IF outcome.ok THEN "ok" ELSE "failed"
  /\ Goto([pc |-> "fetch", type |-> 1, item |-> 0])
  /\ UNCHANGED <<localItems, remoteRows, directPending, snapshot, existingIds, fetched,
                 fetchedIds, createCalls>>

\* await <service>.findByUserId(currentUserId) of the current entity type
findByUserId(outcome) ==
  /\ syncPc = "fetch"
  /\ Call(outcome)
  /\ fetched' = [fetched EXCEPT ![Types[syncType]] = IF outcome.ok THEN "ok" ELSE "failed"]
  /\ IF outcome.ok
     THEN /\ existingIds' = IdsOf(remoteRows[Types[syncType]])
          /\ fetchedIds' = [fetchedIds EXCEPT ![Types[syncType]] =
                              IdsOf(remoteRows[Types[syncType]])]
          /\ Goto(Continue(syncType, 1, IdsOf(remoteRows[Types[syncType]])))
     ELSE /\ UNCHANGED <<existingIds, fetchedIds>>
          /\ Goto(IF FetchReturns(Types[syncType], outcome) THEN Returned
                  ELSE NextBlock(syncType))
  /\ UNCHANGED <<localItems, remoteRows, directPending, snapshot, userUpdate,
                 createCalls>>

\* the rows of the table after the insert
InsertRow(rows, id, outcome) ==
  IF InsertOutcome(rows, id, outcome).ok THEN rows \cup {[id |-> id, origin |-> "sync"]}
  ELSE rows

\* await <service>.create(currentUserId, item) for the current item
create(outcome) ==
  /\ syncPc = "create"
  /\ Call(outcome)
  /\ createCalls' = [createCalls EXCEPT ![Types[syncType]] =
                       @ \cup {snapshot[Types[syncType]][syncItem].id}]
  /\ remoteRows' = [remoteRows EXCEPT ![Types[syncType]] =
                      InsertRow(@, snapshot[Types[syncType]][syncItem].id, outcome)]
  /\ Goto(IF CreateReturns(Types[syncType],
                           InsertOutcome(remoteRows[Types[syncType]],
                                         snapshot[Types[syncType]][syncItem].id, outcome))
          THEN Returned
          ELSE Continue(syncType, syncItem + 1, existingIds))
  /\ UNCHANGED <<localItems, directPending, snapshot, existingIds, userUpdate, fetched,
                 fetchedIds>>

SyncNext ==
  \/ \E t \in TypeSet, item \in Items : addItem(t, item)
  \/ \E t \in TypeSet \ DirectTypes, id \in ItemIds : otherInsert(t, id)
  \/ \E t \in DirectTypes, id \in ItemIds, outcome \in DirectOutcomes :
       directCreate(t, id, outcome)
  \/ saveUserData
  \/ \E outcome \in Outcomes : updateUser(outcome)
  \/ \E outcome \in Outcomes : findByUserId(outcome)
  \/ \E outcome \in Outcomes : create(outcome)
---------------------------------------------------------------------------
(* The login, signUp and logout actions of the store.  An account lives in   *)
(* the hosted store (table users) or in the local blob, the localStorage     *)
(* item sage-users, keyed by the normalized username.  Whether the hosted    *)
(* store is configured (isSupabaseConfigured of lib/supabaseHelper), whether *)
(* its call throws and whether localStorage works are inputs of every call.  *)
(* The user's data are the items of the store's arrays, of the account's     *)
(* rows in the hosted store and of the arrays in the account's blob entry;   *)
(* an item is its entity type and id.                                        *)

\* what is typed into the username field
Usernames ==
  { <<" ","A","n","n">>,
    <<"b","o","b">>,
    <<" ">> }

\* what is typed into the password field
Passwords ==
  { <<"p","w","1">>, <<"p","w","2">>, <<>> }

\* username.trim().toLowerCase()
NormalizeUsername_NoLowerCase(username) == Trim(username)

NormalizeUsername(username) == ToLowerCase(Trim(username))

\* the id of a row of the table users: a UUID, no username
UserId(normalizedUsername) == <<"u","u","i","d","-">> \o normalizedUsername

\* the hosted store during a call: isSupabaseConfigured() is false, or it is
\* true and the calls of the hosted store succeed, or one of them throws
HostedCases == {"notConfigured", "ok", "error"}

\* the number of accounts: rows of the table users and entries of the blob
MaxAccounts == 2

\* the state of localStorage during a call: it works, setItem throws (the
\* quota is exceeded), or every access throws
StorageModes == {"ok", "quotaExceeded", "unavailable"}

\* the user object of a blob entry: as the current version writes it, without
\* hasCompletedOnboarding (an earlier version), or missing
UserShapes == {"current", "legacy", "missing"}

NoCall ==
  [op |-> "none", username |-> <<>>, password |-> <<>>, hosted |-> "ok", storage |-> "ok",
   result |-> FALSE, blobBefore |-> {}, item |-> <<>>, items |-> {}]

\* user: null
NoUser ==
  [present |-> FALSE, preferredName |-> <<>>, hasCompletedOnboarding |-> FALSE,
   familyMembers |-> <<>>]

NoSignUp ==
  [id |-> <<>>, username |-> <<>>, password |-> <<>>, hosted |-> "none", onboarded |-> FALSE]

AuthInit ==
  /\ remoteUsers = {}
  /\ blob = {}
  /\ isAuthenticated = FALSE
  /\ currentUserId = <<>>
  /\ authLast = NoCall
  /\ storeItems = {}
  /\ remoteItems = {}
  /\ blobItems = {}
  /\ signedUp = NoSignUp
  /\ user = NoUser
  /\ blobUser = {}
  /\ rowUser = {}
  /\ familyRequests = {}
  /\ blobRequests = {}
  /\ requestCount = 0

profileVars == <<user, blobUser, rowUser>>

familyVars == <<familyRequests, blobRequests, requestCount>>

\* the familyRequests of the entry of a key
RequestsOf(owned, key) == {q.request : q \in {r \in owned : r.key = key}}

\* storedUsers[key].familyRequests = requests
PutRequests(owned, key, requests) ==
  {q \in owned : q.key # key} \cup {[key |-> key, request |-> r] : r \in requests}

dataVars == <<storeItems, remoteItems, blobItems>>

\* the items an owner (a users row id, a blob key) has in a set of owned items
ItemsOf(owned, owner) == {<<q[2], q[3]>> : q \in {r \in owned : r[1] = owner}}

Owned(owner, items) == {<<owner, i[1], i[2]>> : i \in items}

\* the owner's items replaced
Replace(owned, owner, items) == {q \in owned : q[1] # owner} \cup Owned(owner, items)

BlobKeys(b) == {e.key : e \in b}

\* storedUsers[key], for a key of the blob
Entry(b, key) == CHOOSE e \in b : e.key = key

\* storedUsers[key] = entry
Put(b, entry) == {e \in b : e.key # entry.key} \cup {entry}

UserWith(preferredName, hasCompletedOnboarding) ==
  [present |-> TRUE, preferredName |-> preferredName,
   hasCompletedOnboarding |-> hasCompletedOnboarding, familyMembers |-> <<>>]

\* { ...user, familyMembers }
WithMembers(u, familyMembers) == [u EXCEPT !.familyMembers = familyMembers]

\* the user of a new account
NewUser == UserWith(<<>>, FALSE)

\* a field of a stored object that holds a boolean or is not there
Flag(b) == IF b THEN "true" ELSE "false"

\* what the entry of a key holds of a user: preferredName,
\* hasCompletedOnboarding and familyMembers of its user object, and the entry's
\* isOnboarded (an earlier version wrote it)
StoredAs(key, u, isOnboarded) ==
  [key |-> key, preferredName |-> u.preferredName,
   hasCompletedOnboarding |-> Flag(u.hasCompletedOnboarding), isOnboarded |-> isOnboarded,
   familyMembers |-> u.familyMembers]

StoredUser(key) == CHOOSE e \in blobUser : e.key = key

PutUser(users, entry) == {e \in users : e.key # entry.key} \cup {entry}

\* the isOnboarded of the entry of a key, if the entry is there
StoredIsOnboarded(key) ==
  IF key \in BlobKeys(blobUser) THEN StoredUser(key).isOnboarded ELSE "undefined"

\* the row of a user id
RowOf(id) == CHOOSE r \in rowUser : r.id = id

PutRow(rows, row) == {r \in rows : r.id # row.id} \cup {row}

\* the user object of an entry as an earlier version wrote it, by shape: a new
\* account of the current version, a new account of the earlier version
\* (preferredName is the username, isOnboarded false), or no user object
ShapedUser(key, shape) ==
  IF shape = "current" THEN StoredAs(key, NewUser, "undefined")
  ELSE [key |-> key, preferredName |-> IF shape = "legacy" THEN FirstSegment(key) ELSE <<>>,
        hasCompletedOnboarding |-> "undefined", isOnboarded |-> "false",
        familyMembers |-> <<>>]

\* the blob was written by an earlier version of the application
legacyData(key, password, shape) ==
  /\ authLast = NoCall
  /\ blob = {}
  /\ remoteUsers = {}
  /\ blob' = {[key |-> key, password |-> password, user |-> shape]}
  /\ blobUser' = {ShapedUser(key, shape)}
  /\ UNCHANGED <<remoteUsers, isAuthenticated, currentUserId, authLast, dataVars,
                 signedUp, user, rowUser, familyVars>>

\* the account a signUp that returns true creates and signs in: the id of the
\* new row of the table users, or the key of the new blob entry
AccountOf(username, password, hosted) ==
  [id |-> IF hosted = "ok" THEN UserId(ToLowerCase(Trim(username)))
          ELSE ToLowerCase(Trim(username)),
   username |-> username, password |-> password, hosted |-> hosted, onboarded |-> FALSE]

Called(op, username, password, hosted, storage, result) ==
  /\ authLast' = [op |-> op, username |-> username, password |-> password,
                  hosted |-> hosted, storage |-> storage, result |-> result,
                  blobBefore |-> blob, item |-> <<>>,
                  items |-> IF op = "logout" THEN storeItems ELSE {}]
  /\ signedUp' = IF op = "signUp" /\ result THEN AccountOf(username, password, hosted)
                 ELSE signedUp

\* userService.login: the row of the username, if the password is its password
RemoteLogin(normalizedUsername, password) ==
  \E u \in remoteUsers : u.username = normalizedUsername /\ u.password = password

\* the localStorage fallback of login finds the entry and the password matches
LocalMatch(normalizedUsername, password) ==
  /\ normalizedUsername \in BlobKeys(blob)
  /\ Entry(blob, normalizedUsername).password = password

\* the fallback has to write the blob before it signs in: repair or migration
NeedsWrite(normalizedUsername) == Entry(blob, normalizedUsername).user # "current"

\* the localStorage fallback of login signs in
LocalLogin(normalizedUsername, password, storage) ==
  /\ storage # "unavailable"
  /\ LocalMatch(normalizedUsername, password)
  /\ NeedsWrite(normalizedUsername) => storage = "ok"

SignIn(id) ==
  /\ isAuthenticated' = TRUE
  /\ currentUserId' = id

\* login, hosted: appUser, from preferred_name || '' and is_onboarded || false
UserOfRow(row) ==
  WithMembers(UserWith(row.preferred_name, row.is_onboarded), row.family_members)

\* login, fallback: the user made for an entry without a user object
RepairedUser(entry) == UserWith(<<>>, entry.isOnboarded = "true")

\* a migration that takes every account as onboarded
MigratedUser_Onboarded(entry) ==
  WithMembers(UserWith(entry.preferredName, TRUE), entry.familyMembers)

\* login, fallback: the entry's user, with hasCompletedOnboarding taken from
\* isOnboarded (true if that is not there either) when the user has none
MigratedUser(entry) ==
  WithMembers(UserWith(entry.preferredName,
                       IF entry.hasCompletedOnboarding = "undefined"
                       THEN entry.isOnboarded # "false"
                       ELSE entry.hasCompletedOnboarding = "true"),
              entry.familyMembers)

\* login, fallback: the user signed in and the entry written back; the
\* repaired entry is written without isOnboarded
LocalUser(key) ==
  IF Entry(blob, key).user = "missing" THEN RepairedUser(StoredUser(key))
  ELSE MigratedUser(StoredUser(key))

LocalUserStored(key) ==
  StoredAs(key, LocalUser(key),
           IF Entry(blob, key).user = "missing" THEN "undefined"
           ELSE StoredUser(key).isOnboarded)

\* the outcome of login for the normalized username
LoginAs(normalizedUsername, username, password, hosted, storage) ==
  IF Len(normalizedUsername) = 0 \/ Len(password) = 0
  THEN /\ Called("login", username, password, hosted, storage, FALSE)
       /\ UNCHANGED <<remoteUsers, blob, isAuthenticated, currentUserId, dataVars,
                      profileVars, familyVars>>
  ELSE IF hosted = "ok"
  THEN /\ Called("login", username, password, hosted, storage,
                 RemoteLogin(normalizedUsername, password))
       /\ IF RemoteLogin(normalizedUsername, password)
          THEN /\ SignIn(UserId(normalizedUsername))
               /\ storeItems' = ItemsOf(remoteItems, UserId(normalizedUsername))
               /\ user' = UserOfRow(RowOf(UserId(normalizedUsername)))
               /\ familyRequests' = {}
          ELSE UNCHANGED <<isAuthenticated, currentUserId, storeItems, user, familyRequests>>
       /\ UNCHANGED <<remoteUsers, blob, remoteItems, blobItems, blobUser, rowUser,
                      blobRequests, requestCount>>
  ELSE /\ Called("login", username, password, hosted, storage,
                 LocalLogin(normalizedUsername, password, storage))
       /\ IF LocalLogin(normalizedUsername, password, storage)
          THEN /\ SignIn(normalizedUsername)
               /\ storeItems' = ItemsOf(blobItems, normalizedUsername)
               /\ user' = LocalUser(normalizedUsername)
               /\ blob' = IF storage = "ok"
                          THEN Put(blob, [key |-> normalizedUsername,
                                          password |-> password, user |-> "current"])
                          ELSE blob
               /\ blobUser' = IF storage = "ok"
                              THEN PutUser(blobUser, LocalUserStored(normalizedUsername))
                              ELSE blobUser
               /\ familyRequests' = RequestsOf(blobRequests, normalizedUsername)
          ELSE UNCHANGED <<blob, isAuthenticated, currentUserId, storeItems, user, blobUser,
                          familyRequests>>
       /\ UNCHANGED <<remoteUsers, remoteItems, blobItems, rowUser, blobRequests, requestCount>>

login(username, password, hosted, storage) ==
  /\ ~isAuthenticated
  /\ LoginAs(NormalizeUsername(username), username, password, hosted, storage)

\* the localStorage fallback of signUp creates the account: the username is not
\* in the blob it could read, and the blob can be written
LocalSignUp(normalizedUsername, storage) ==
  /\ storage = "ok"
  /\ normalizedUsername \notin BlobKeys(blob)

\* the outcome of signUp for the normalized username
SignUpAs(normalizedUsername, username, password, hosted, storage) ==
  IF Len(normalizedUsername) = 0 \/ Len(password) = 0
  THEN /\ Called("signUp", username, password, hosted, storage, FALSE)
       /\ UNCHANGED <<remoteUsers, blob, isAuthenticated, currentUserId, dataVars,
                      profileVars, familyVars>>
  ELSE IF hosted = "ok"
  THEN /\ Called("signUp", username, password, hosted, storage,
                 \A u \in remoteUsers : u.username # normalizedUsername)
       /\ IF \A u \in remoteUsers : u.username # normalizedUsername
          THEN /\ remoteUsers' = remoteUsers \cup
                                   {[username |-> normalizedUsername, password |-> password]}
               /\ rowUser' = PutRow(rowUser,
                                    [id |-> UserId(normalizedUsername),
                                     preferred_name |-> FirstSegment(Trim(username)),
                                     is_onboarded |-> FALSE, family_members |-> <<>>])
               /\ SignIn(UserId(normalizedUsername))
               /\ storeItems' = {}
               /\ user' = NewUser
               /\ familyRequests' = {}
          ELSE UNCHANGED <<remoteUsers, isAuthenticated, currentUserId, storeItems, user,
                          rowUser, familyRequests>>
       /\ UNCHANGED <<blob, remoteItems, blobItems, blobUser, blobRequests, requestCount>>
  ELSE /\ Called("signUp", username, password, hosted, storage,
                 LocalSignUp(normalizedUsername, storage))
       /\ IF LocalSignUp(normalizedUsername, storage)
          THEN /\ blob' = Put(blob, [key |-> normalizedUsername, password |-> password,
                                     user |-> "current"])
               /\ SignIn(normalizedUsername)
               /\ storeItems' = {}
               /\ blobItems' = Replace(blobItems, normalizedUsername, {})
               /\ user' = NewUser
               /\ blobUser' = PutUser(blobUser,
                                      StoredAs(normalizedUsername, NewUser, "undefined"))
               /\ familyRequests' = {}
               /\ blobRequests' = PutRequests(blobRequests, normalizedUsername, {})
          ELSE UNCHANGED <<blob, isAuthenticated, currentUserId, storeItems, blobItems, user,
                          blobUser, familyRequests, blobRequests>>
       /\ UNCHANGED <<remoteUsers, remoteItems, rowUser, requestCount>>

signUp(username, password, hosted, storage) ==
  /\ ~isAuthenticated
  /\ Cardinality(remoteUsers) + Cardinality(blob) < MaxAccounts
  /\ SignUpAs(NormalizeUsername(username), username, password, hosted, storage)

\* logout writes the entry with an empty password
StoredPassword_Empty(b, key) == <<>>

\* storedUsers[currentUserId]?.password || ''
StoredPassword(b, key) == IF key \in BlobKeys(b) THEN Entry(b, key).password ELSE <<>>

\* the arrays logout writes into the blob entry and empties in the store
SavedAtLogout(items) == {i \in items : i[1] # "memorySessions"}

NotSavedAtLogout(items) == {i \in items : i[1] = "memorySessions"}

\* logout saves the signed-in user's data under currentUserId and clears the session
logout(storage) ==
  /\ isAuthenticated
  /\ blob' = IF storage = "ok" /\ user.present
             THEN Put(blob, [key |-> currentUserId,
                             password |-> StoredPassword(blob, currentUserId),
                             user |-> "current"])
             ELSE blob
  /\ blobItems' = IF storage = "ok" /\ user.present
                  THEN Replace(blobItems, currentUserId,
                         SavedAtLogout(storeItems)
                           \cup NotSavedAtLogout(ItemsOf(blobItems, currentUserId)))
                  ELSE blobItems
  /\ blobUser' = IF storage = "ok" /\ user.present
                 THEN PutUser(blobUser,
                              StoredAs(currentUserId, user, StoredIsOnboarded(currentUserId)))
                 ELSE blobUser
  /\ storeItems' = storeItems \ SavedAtLogout(storeItems)
  /\ user' = NoUser
  /\ blobRequests' = IF storage = "ok" /\ user.present
                     THEN PutRequests(blobRequests, currentUserId, familyRequests)
                     ELSE blobRequests
  /\ familyRequests' = {}
  /\ UNCHANGED <<rowUser, requestCount>>
  /\ UNCHANGED remoteItems
  /\ isAuthenticated' = FALSE
  /\ currentUserId' = <<>>
  /\ Called("logout", currentUserId, <<>>, "ok", storage, TRUE)
  /\ UNCHANGED remoteUsers

\* the calls of login and signUp that differ in what they reach: a call that
\* fails the validation reaches no store, and a call the hosted store answers
\* does not reach localStorage
AuthCalls ==
  {c \in [username : Usernames, password : Passwords, hosted : HostedCases,
          storage : StorageModes] :
     /\ (Len(Trim(c.username)) = 0 \/ Len(c.password) = 0) =>
          (c.hosted = "ok" /\ c.storage = "ok")
     /\ c.hosted = "ok" => c.storage = "ok"}

AuthNext ==
  \/ \E username \in Usernames, password \in Passwords \ {<<>>}, shape \in UserShapes :
       legacyData(NormalizeUsername(username), password, shape)
  \/ \E c \in AuthCalls : login(c.username, c.password, c.hosted, c.storage)
  \/ \E c \in AuthCalls : signUp(c.username, c.password, c.hosted, c.storage)
  \/ \E storage \in StorageModes : logout(storage)

(* The user's data.  The actions that add to an array of the store, and a    *)
(* pass of App.tsx's saveUserData in which no call fails, taken as one step  *)
(* (SpecSync has the steps of a pass).  A row can be created for the         *)
(* signed-in user when currentUserId is the id of a row of the table users.  *)

\* the number of items added in a run
MaxAdded == 2

DataIds == {"x"}

\* addTalkSession, addSpeechAnalysis, addGameResult, addInsight
StateOnlyTypes == {"talkSessions", "speechAnalyses", "gameResults", "insights"}

\* an id crypto.randomUUID() has not returned before
Fresh(item) ==
  /\ item \notin storeItems
  /\ \A q \in remoteItems \cup blobItems : <<q[2], q[3]>> # item

Known == storeItems \cup {<<q[2], q[3]>> : q \in remoteItems \cup blobItems}

HasRow(id) == \E u \in remoteUsers : UserId(u.username) = id

CalledWith(op, item, hosted, storage) ==
  /\ authLast' = [op |-> op, username |-> currentUserId, password |-> <<>>,
                  hosted |-> hosted, storage |-> storage, result |-> TRUE,
                  blobBefore |-> blob, item |-> item, items |-> {}]
  /\ UNCHANGED <<signedUp, familyVars>>

\* an action that only sets the store's array
addToStore(type, id) ==
  /\ isAuthenticated
  /\ Fresh(<<type, id>>)
  /\ Cardinality(Known) < MaxAdded
  /\ storeItems' = storeItems \cup {<<type, id>>}
  /\ CalledWith("add", <<type, id>>, "ok", "ok")
  /\ UNCHANGED <<remoteUsers, blob, isAuthenticated, currentUserId, remoteItems, blobItems,
                 profileVars>>

\* the localStorage backup of addHealthCard and addMemorySession
LocalBackup(item, hosted, storage) ==
  IF storage = "ok" /\ currentUserId \in BlobKeys(blob)
  THEN blobItems \cup {<<currentUserId, item[1], item[2]>>}
  ELSE blobItems

\* addHealthCard and addMemorySession: the array, the create, the backup
AddAndSave(op, item, hosted, storage) ==
  /\ isAuthenticated
  /\ Fresh(item)
  /\ Cardinality(Known) < MaxAdded
  /\ storeItems' = storeItems \cup {item}
  /\ remoteItems' = IF hosted = "ok" /\ HasRow(currentUserId)
                    THEN remoteItems \cup {<<currentUserId, item[1], item[2]>>}
                    ELSE remoteItems
  /\ blobItems' = LocalBackup(item, hosted, storage)
  /\ CalledWith(op, item, hosted, storage)
  /\ UNCHANGED <<remoteUsers, blob, isAuthenticated, currentUserId, profileVars>>

addHealthCard(id, hosted, storage) ==
  AddAndSave("addHealthCard", <<"healthCards", id>>, hosted, storage)

addMemorySession(id, hosted, storage) ==
  AddAndSave("addMemorySession", <<"memorySessions", id>>, hosted, storage)

\* the row of the signed-in user after userService.update with the store's user
UpdatedRow ==
  [id |-> currentUserId, preferred_name |-> user.preferredName,
   is_onboarded |-> user.hasCompletedOnboarding, family_members |-> user.familyMembers]

\* a pass of saveUserData without a failure: the user update and the creates
mirrorUserData ==
  /\ isAuthenticated
  /\ user.present
  /\ HasRow(currentUserId)
  /\ \/ ~(Owned(currentUserId, storeItems) \subseteq remoteItems)
     \/ UpdatedRow \notin rowUser
  /\ rowUser' = PutRow(rowUser, UpdatedRow)
  /\ remoteItems' = remoteItems \cup Owned(currentUserId, storeItems)
  /\ CalledWith("saveUserData", <<>>, "ok", "ok")
  /\ UNCHANGED <<remoteUsers, blob, isAuthenticated, currentUserId, storeItems, blobItems,
                 user, blobUser>>

\* one person with one password
Bob == <<"b","o","b">>
Pw1 == <<"p","w","1">>
DataStorage == {"ok", "quotaExceeded"}

DataNext ==
  \/ \E hosted \in HostedCases : signUp(Bob, Pw1, hosted, "ok")
  \/ \E hosted \in HostedCases : login(Bob, Pw1, hosted, "ok")
  \/ \E storage \in DataStorage : logout(storage)
  \/ \E type \in StateOnlyTypes, id \in DataIds : addToStore(type, id)
  \/ \E id \in DataIds, hosted \in HostedCases, storage \in DataStorage :
       addHealthCard(id, hosted, storage)
  \/ \E id \in DataIds, hosted \in HostedCases, storage \in DataStorage :
       addMemorySession(id, hosted, storage)
  \/ mirrorUserData
---------------------------------------------------------------------------
(* The Talk screen's conversation: startConversation, the dictation turn    *)
(* ended by stopRecording, the response awaited inside stopRecording, the   *)
(* health card prompt and handleEndConversation, with the store's           *)
(* talkSessions and healthCards.  A handler runs to its first await in one  *)
(* step; what stopRecording does after `await generateSageResponse` is a    *)
(* step of its own, taken with the currentSession and updatedMessages the   *)
(* call captured.  What was dictated in a turn is the environment's choice  *)
(* at stopRecording.  Date.now() is a clock that advances with a message    *)
(* and with the end of the conversation, and the                            *)
(* identifiers crypto.randomUUID() returns are taken from SessionIds for    *)
(* sessions and from the clock for cards.  The session's transcript field   *)
(* is left out.                                                             *)

\* the number of turns in which the user says something, over all conversations
MaxTurns == 2

SessionIds == <<"s1", "s2">>

FineContent == <<"I"," ","a","m"," ","f","i","n","e",".">>

\* finalTranscript before trim
Utterances == {KneeContent, FineContent, <<" ">>}

(* generateSageResponse resolves with some text and never rejects           *)
SageReplies == {GOOD_RESPONSE}

SpeakingTime == 2000
ThinkingTime == 1000

NoSession == [status |-> "none"]
NoCard == [category |-> "none"]
NoTurn == [session |-> NoSession]

ConversationInit ==
  /\ isConversationStarted = FALSE
  /\ talkMessages = <<>>
  /\ currentSession = NoSession
  /\ pendingHealthCard = NoCard
  /\ isGeneratingResponse = FALSE
  /\ awaited = NoTurn
  /\ sessionStartTime = 0
  /\ clock = 0
  /\ talkSessions = <<>>
  /\ healthCards = <<>>
  /\ appended = {}
  /\ lastHandler = "none"

storeVars == <<talkSessions, healthCards>>

\* the number of conversations started so far
Started == Len(talkSessions) + (IF isConversationStarted THEN 1 ELSE 0)

startConversation ==
  /\ ~isConversationStarted
  /\ Started < Len(SessionIds)
  /\ LET initialMessage ==
           [role |-> "sage", content |-> SAGE_INITIAL, timestamp |-> clock]
         newSession ==
           [id |-> SessionIds[Started + 1],
            messages |-> <<initialMessage>>,
            status |-> "active",
            duration |-> 0,
            cliScore |-> -1,
            cliBreakdown |-> <<>>]
     IN  /\ isConversationStarted' = TRUE
         /\ currentSession' = newSession
         /\ talkMessages' = <<initialMessage>>
         /\ sessionStartTime' = clock
  /\ lastHandler' = "startConversation"
  /\ UNCHANGED <<pendingHealthCard, isGeneratingResponse, awaited, clock, storeVars,
                 appended, isRecording>>

\* the Speak button, disabled while a response is generated
speak ==
  /\ isConversationStarted
  /\ ~isGeneratingResponse
  /\ Cardinality(appended) < MaxTurns
  /\ ~isRecording
  /\ isRecording' = TRUE
  /\ lastHandler' = "startRecording"
  /\ UNCHANGED <<isConversationStarted, talkMessages, currentSession, pendingHealthCard,
                 isGeneratingResponse, awaited, sessionStartTime, clock, storeVars,
                 appended>>

PendingFor(healthInfo, id) ==
  [id |-> id, category |-> healthInfo.category, description |-> healthInfo.description]

\* stopRecording with a transcript that is not empty, up to
\* `await generateSageResponse`
AddUserMessage(userMessage, healthInfo) ==
  /\ talkMessages' = Append(talkMessages, userMessage)
  /\ pendingHealthCard' =
       IF Len(healthInfo) > 0 /\ pendingHealthCard = NoCard
       THEN PendingFor(healthInfo[1], userMessage.timestamp)
       ELSE pendingHealthCard
  /\ isGeneratingResponse' = TRUE
  /\ awaited' = [session |-> currentSession,
                 updatedMessages |-> Append(talkMessages, userMessage)]
  /\ appended' = appended \cup {<<currentSession.id, userMessage>>}

StopRecording(finalTranscript) ==
  /\ isRecording
  /\ isRecording' = FALSE
  /\ lastHandler' = "stopRecording"
  /\ IF Len(finalTranscript) > 0 /\ currentSession # NoSession
     THEN /\ clock' = clock + SpeakingTime
          /\ AddUserMessage(
               [role |-> "user", content |-> finalTranscript, timestamp |-> clock'],
               extractHealthInfo(finalTranscript))
     ELSE UNCHANGED <<clock, talkMessages, pendingHealthCard, isGeneratingResponse,
                      awaited, appended>>
  /\ UNCHANGED <<isConversationStarted, currentSession, sessionStartTime, storeVars>>

stopRecordingAfter(dictated) == StopRecording(Trim(dictated))

\* stopRecording from the point where generateSageResponse has resolved
responseReturned(sageResponse) ==
  /\ awaited # NoTurn
  /\ clock' = clock + ThinkingTime
  /\ LET replyMessage ==
           [role |-> "sage", content |-> sageResponse, timestamp |-> clock']
         finalMessages == Append(awaited.updatedMessages, replyMessage)
     IN  /\ talkMessages' = finalMessages
         /\ currentSession' = [awaited.session EXCEPT !.messages = finalMessages]
  /\ isGeneratingResponse' = FALSE
  /\ awaited' = NoTurn
  /\ lastHandler' = "stopRecording"
  /\ UNCHANGED <<isConversationStarted, pendingHealthCard, sessionStartTime, storeVars,
                 appended, isRecording>>

\* the status left as it was
CompleteSession_KeepStatus(session, duration, cliResult_) ==
  [session EXCEPT !.duration = duration,
                  !.cliScore = cliResult_.overall,
                  !.cliBreakdown = cliResult_.breakdown]

CompleteSession(session, duration, cliResult_) ==
  [session EXCEPT !.status = "completed",
                  !.duration = duration,
                  !.cliScore = cliResult_.overall,
                  !.cliBreakdown = cliResult_.breakdown]

addTalkSession(session) == talkSessions' = Append(talkSessions, session)

handleEndConversation ==
  /\ isConversationStarted
  /\ isRecording' = FALSE
  /\ clock' = clock + ThinkingTime
  /\ lastHandler' = "handleEndConversation"
  /\ IF currentSession # NoSession
     THEN LET duration == (clock' - sessionStartTime) \div 1000
          IN  /\ addTalkSession(
                   CompleteSession(currentSession, duration,
                     calculateCLIScore(currentSession.messages, duration, 0, 0)))
              /\ currentSession' = NoSession
              /\ talkMessages' = <<>>
              /\ isConversationStarted' = FALSE
              /\ pendingHealthCard' = NoCard
     ELSE UNCHANGED <<talkSessions, currentSession, talkMessages, isConversationStarted,
                      pendingHealthCard>>
  /\ UNCHANGED <<isGeneratingResponse, awaited, sessionStartTime, healthCards, appended>>

\* the store's action for a logged-in user, as far as the store's list goes
StoreHealthCard(card) == healthCards' = Append(healthCards, card)

\* the card stored with confirmed left false
CardFor_Unconfirmed(healthInfo, id, sourceSessionId) ==
  [id |-> id,
   date |-> clock,
   category |-> healthInfo.category,
   description |-> healthInfo.description,
   severity |-> healthInfo.severity,
   confidence |-> healthInfo.confidence,
   sourceSessionId |-> sourceSessionId,
   confirmed |-> FALSE]

CardFor(healthInfo, id, sourceSessionId) ==
  [id |-> id,
   date |-> clock,
   category |-> healthInfo.category,
   description |-> healthInfo.description,
   severity |-> healthInfo.severity,
   confidence |-> healthInfo.confidence,
   sourceSessionId |-> sourceSessionId,
   confirmed |-> TRUE]

ConfirmWith(healthInfo) ==
  IF Len(healthInfo) > 0
  THEN StoreHealthCard(CardFor(healthInfo[1], pendingHealthCard.id, currentSession.id))
  ELSE UNCHANGED healthCards

handleConfirmHealthCard ==
  /\ isConversationStarted
  /\ pendingHealthCard # NoCard
  /\ currentSession # NoSession
  /\ ConfirmWith(extractHealthInfo(pendingHealthCard.description))
  /\ pendingHealthCard' = NoCard
  /\ lastHandler' = "handleConfirmHealthCard"
  /\ UNCHANGED <<isConversationStarted, talkMessages, currentSession, isGeneratingResponse,
                 awaited, sessionStartTime, clock, talkSessions, appended, isRecording>>

handleRejectHealthCard ==
  /\ isConversationStarted
  /\ pendingHealthCard # NoCard
  /\ pendingHealthCard' = NoCard
  /\ lastHandler' = "handleRejectHealthCard"
  /\ UNCHANGED <<isConversationStarted, talkMessages, currentSession, isGeneratingResponse,
                 awaited, sessionStartTime, clock, storeVars, appended, isRecording>>

ConversationNext ==
  \/ startConversation
  \/ speak
  \/ \E dictated \in Utterances : stopRecordingAfter(dictated)
  \/ \E sageResponse \in SageReplies : responseReturned(sageResponse)
  \/ handleEndConversation
  \/ handleConfirmHealthCard
  \/ handleRejectHealthCard
---------------------------------------------------------------------------
(* Onboarding.  completeOnboarding names the user and marks the account as   *)
(* onboarded; a reload of the page brings the store back from what persist   *)
(* keeps (isAuthenticated and currentUserId) and runs the callback of        *)
(* onRehydrateStorage.  Entries of the blob may have been written by the     *)
(* earlier version of the store, which kept isOnboarded beside the user and  *)
(* took any name at onboarding.                                              *)

\* what is typed into the name field
Names ==
  { <<"J","o"," ","L">>,
    <<" ","A","l">>,
    <<" "," ">> }

\* trimmedName.split(' ')[0].trim()
PreferredName(name) == Trim(FirstSegment(Trim(name)))

\* the earlier version took the name as it came
PreferredName_Legacy(name) == FirstSegment(Trim(name))

\* the earlier version of the store ran on this browser: signUp, then
\* completeOnboarding(name), then logout, with or without a reload of the page
\* before the logout (after a reload the store's user is null until the data
\* of the entry is loaded, and logout wrote user: state.user)
legacyAccount(key, password, name, userLost) ==
  /\ authLast = NoCall
  /\ blob = {}
  /\ remoteUsers = {}
  /\ blob' = {[key |-> key, password |-> password,
               user |-> IF userLost THEN "missing" ELSE "legacy"]}
  /\ blobUser' = {[key |-> key,
                   preferredName |-> IF userLost THEN <<>> ELSE PreferredName_Legacy(name),
                   hasCompletedOnboarding |-> "undefined", isOnboarded |-> "true",
                   familyMembers |-> <<>>]}
  /\ UNCHANGED <<remoteUsers, isAuthenticated, currentUserId, authLast, dataVars,
                 signedUp, user, rowUser, familyVars>>

\* the call is recorded with the name, and with the account of the last signUp
\* if it is the one onboarded
Onboarded(name, hosted, storage, changed) ==
  /\ authLast' = [op |-> "completeOnboarding", username |-> currentUserId,
                  password |-> <<>>, hosted |-> hosted, storage |-> storage,
                  result |-> changed, blobBefore |-> blob, item |-> name, items |-> {}]
  /\ signedUp' = IF changed /\ signedUp # NoSignUp /\ currentUserId = signedUp.id
                 THEN [signedUp EXCEPT !.onboarded = TRUE]
                 ELSE signedUp

\* finalUser: the store's user, or generateInitialUser's if there is none, with
\* the name and hasCompletedOnboarding
FinalUser(name) ==
  WithMembers(UserWith(PreferredName(name), TRUE), user.familyMembers)

\* completeOnboarding(name): nothing for a blank name or without currentUserId;
\* else the user gets the name and hasCompletedOnboarding, the row of the user
\* is updated if the hosted store is configured, and the entry of the blob if
\* there is one
completeOnboarding(name, hosted, storage) ==
  IF Len(Trim(name)) = 0 \/ Len(PreferredName(name)) = 0 \/ Len(currentUserId) = 0
  THEN /\ Onboarded(name, hosted, storage, FALSE)
       /\ UNCHANGED <<remoteUsers, blob, isAuthenticated, currentUserId, dataVars,
                      profileVars, familyVars>>
  ELSE /\ Onboarded(name, hosted, storage, TRUE)
       /\ user' = FinalUser(name)
       /\ rowUser' = IF hosted = "ok" /\ HasRow(currentUserId)
                     THEN PutRow(rowUser, [id |-> currentUserId,
                                           preferred_name |-> PreferredName(name),
                                           is_onboarded |-> TRUE,
                                           family_members |->
                                             RowOf(currentUserId).family_members])
                     ELSE rowUser
       /\ blob' = IF storage = "ok" /\ currentUserId \in BlobKeys(blob)
                  THEN Put(blob, [key |-> currentUserId,
                                  password |-> StoredPassword(blob, currentUserId),
                                  user |-> "current"])
                  ELSE blob
       /\ blobUser' = IF storage = "ok" /\ currentUserId \in BlobKeys(blob)
                      THEN PutUser(blobUser,
                                   StoredAs(currentUserId, FinalUser(name),
                                            StoredIsOnboarded(currentUserId)))
                      ELSE blobUser
       /\ blobRequests' = IF storage = "ok" /\ currentUserId \in BlobKeys(blob)
                          THEN PutRequests(blobRequests, currentUserId, familyRequests)
                          ELSE blobRequests
       /\ UNCHANGED <<remoteUsers, isAuthenticated, currentUserId, dataVars, familyRequests,
                      requestCount>>

\* onRehydrateStorage, repair: generateInitialUser with hasCompletedOnboarding
\* from the entry
RehydratedRepair(entry) == UserWith(<<>>, entry.isOnboarded = "true")

\* what the callback of onRehydrateStorage returns
Cleared ==
  [isAuthenticated |-> FALSE, currentUserId |-> <<>>, user |-> NoUser, items |-> {},
   familyRequests |-> {}]

Loaded(u) ==
  [isAuthenticated |-> TRUE, currentUserId |-> currentUserId, user |-> u,
   items |-> ItemsOf(blobItems, currentUserId),
   familyRequests |-> RequestsOf(blobRequests, currentUserId)]

\* the entry of the signed-in user can be loaded: it has a user object, and the
\* migration, if one is needed, can be saved
Loadable(storage) ==
  /\ storage # "unavailable"
  /\ currentUserId \in BlobKeys(blob)
  /\ Entry(blob, currentUserId).user # "missing"
  /\ NeedsWrite(currentUserId) => storage = "ok"

\* it has no user object but a password, and the repair can be saved
Repairable(storage) ==
  /\ storage = "ok"
  /\ currentUserId \in BlobKeys(blob)
  /\ Entry(blob, currentUserId).user = "missing"
  /\ Len(Entry(blob, currentUserId).password) > 0

Returned_Rehydrate(storage) ==
  IF ~isAuthenticated \/ Len(currentUserId) = 0 THEN Cleared
  ELSE IF Loadable(storage) THEN Loaded(MigratedUser(StoredUser(currentUserId)))
  ELSE IF Repairable(storage) THEN Loaded(RehydratedRepair(StoredUser(currentUserId)))
  ELSE Cleared

\* the page is loaded again: the store starts from its initial state with
\* isAuthenticated and currentUserId as persisted, and the callback runs; it
\* saves a migration or a repair, and what it returns is merged into the store
\* or not (the persist middleware is not part of the sources)
rehydrate(storage, merged) ==
  /\ blob' = IF (Loadable(storage) /\ NeedsWrite(currentUserId)) \/ Repairable(storage)
             THEN Put(blob, [key |-> currentUserId,
                             password |-> StoredPassword(blob, currentUserId),
                             user |-> "current"])
             ELSE blob
  /\ blobUser' = IF (Loadable(storage) /\ NeedsWrite(currentUserId)) \/ Repairable(storage)
                 THEN PutUser(blobUser,
                              StoredAs(currentUserId, Returned_Rehydrate(storage).user,
                                       StoredIsOnboarded(currentUserId)))
                 ELSE blobUser
  /\ IF merged
     THEN /\ isAuthenticated' = Returned_Rehydrate(storage).isAuthenticated
          /\ currentUserId' = Returned_Rehydrate(storage).currentUserId
          /\ user' = Returned_Rehydrate(storage).user
          /\ storeItems' = Returned_Rehydrate(storage).items
          /\ familyRequests' = Returned_Rehydrate(storage).familyRequests
     ELSE /\ user' = NoUser
          /\ storeItems' = {}
          /\ familyRequests' = {}
          /\ UNCHANGED <<isAuthenticated, currentUserId>>
  /\ authLast' = [op |-> "rehydrate", username |-> currentUserId, password |-> <<>>,
                  hosted |-> "ok", storage |-> storage, result |-> merged,
                  blobBefore |-> blob, item |-> <<>>, items |-> {}]
  /\ UNCHANGED <<remoteUsers, remoteItems, blobItems, signedUp, rowUser, blobRequests,
                 requestCount>>

OnboardingNext ==
  \/ \E name \in Names, userLost \in BOOLEAN : legacyAccount(Bob, Pw1, name, userLost)
  \/ \E hosted \in HostedCases : signUp(Bob, Pw1, hosted, "ok")
  \/ \E hosted \in HostedCases, storage \in StorageModes : login(Bob, Pw1, hosted, storage)
  \/ \E storage \in DataStorage : logout(storage)
  \/ \E name \in Names, hosted \in HostedCases, storage \in DataStorage :
       completeOnboarding(name, hosted, storage)
  \/ \E storage \in StorageModes, merged \in BOOLEAN : rehydrate(storage, merged)
  \/ mirrorUserData
---------------------------------------------------------------------------
(* Family connections.  A request is added to the sender's familyRequests    *)
(* and to those of the recipient's entry in sage-users; accepting adds a     *)
(* family member to the store's user and to the user of the sender's entry.  *)
(* The store's familyRequests and user reach the signed-in user's own entry  *)
(* when logout or completeOnboarding writes it.                              *)

\* the number of requests created in a run
MaxRequests == 2

\* the number of family members of one user
MaxMembers == 2

IdChars == <<"1", "2", "3", "4", "5", "6", "7", "8", "9">>

\* crypto.randomUUID(): the id of the n-th request created
RequestId(n) == <<IdChars[n]>>

RequestIds == {RequestId(n) : n \in 1..MaxRequests}

\* the call is recorded with its argument and whether it changed anything
FamilyCalled(op, item, changed) ==
  /\ authLast' = [op |-> op, username |-> currentUserId, password |-> <<>>,
                  hosted |-> "notConfigured", storage |-> "ok", result |-> changed,
                  blobBefore |-> blob, item |-> item, items |-> {}]
  /\ UNCHANGED signedUp

\* requests.map(r => r.id === requestId ? { ...r, status } : r)
WithStatus(requests, requestId, status) ==
  {IF r.id = requestId THEN [r EXCEPT !.status = status] ELSE r : r \in requests}

\* requestFamilyConnection: the request for a username that has an entry
NewRequest(normalizedUsername) ==
  [id |-> RequestId(requestCount + 1), fromUsername |-> currentUserId,
   toUsername |-> normalizedUsername, status |-> "pending"]

RequestTo(normalizedUsername, username) ==
  IF Len(currentUserId) = 0 \/ ~user.present \/ normalizedUsername \notin BlobKeys(blob)
  THEN /\ FamilyCalled("requestFamilyConnection", username, FALSE)
       /\ UNCHANGED <<remoteUsers, blob, isAuthenticated, currentUserId, dataVars,
                      profileVars, familyVars>>
  ELSE /\ FamilyCalled("requestFamilyConnection", username, TRUE)
       /\ familyRequests' = familyRequests \cup {NewRequest(normalizedUsername)}
       /\ blobRequests' = blobRequests \cup
                            {[key |-> normalizedUsername,
                              request |-> NewRequest(normalizedUsername)]}
       /\ requestCount' = requestCount + 1
       /\ UNCHANGED <<remoteUsers, blob, isAuthenticated, currentUserId, dataVars,
                      profileVars>>

requestFamilyConnection(username) ==
  /\ requestCount < MaxRequests
  /\ RequestTo(NormalizeUsername(username), username)

\* state.familyRequests.find(r => r.id === requestId && r.status === 'pending')
Found(requestId) == {r \in familyRequests : r.id = requestId /\ r.status = "pending"}

\* a family member: the username, and, for the id crypto.randomUUID() gives
\* it, the request it was made for
Member(username, requestId) == [username |-> username, request |-> requestId]

\* the user of the sender's entry with the new member; an entry without a
\* user object gets one that has the members only
WithRequesterMember(entry, member) ==
  [entry EXCEPT !.familyMembers = Append(entry.familyMembers, member)]

Accept(request) ==
  /\ FamilyCalled("acceptFamilyRequest", request.id, TRUE)
  /\ user' = WithMembers(user, Append(user.familyMembers,
                                      Member(request.fromUsername, request.id)))
  /\ blobUser' = PutUser(blobUser,
                         WithRequesterMember(StoredUser(request.fromUsername),
                                             Member(currentUserId, request.id)))
  /\ blob' = IF Entry(blob, request.fromUsername).user = "missing"
             THEN Put(blob, [Entry(blob, request.fromUsername) EXCEPT !.user = "legacy"])
             ELSE blob
  /\ blobRequests' = PutRequests(blobRequests, request.fromUsername,
                                 WithStatus(RequestsOf(blobRequests, request.fromUsername),
                                            request.id, "accepted"))
  /\ familyRequests' = WithStatus(familyRequests, request.id, "accepted")
  /\ UNCHANGED <<remoteUsers, isAuthenticated, currentUserId, dataVars, rowUser,
                 requestCount>>

\* acceptFamilyRequest: nothing without a signed-in user, without a pending
\* request of the id in the store, or without an entry of its sender
acceptFamilyRequest(requestId) ==
  IF \/ Len(currentUserId) = 0
     \/ ~user.present
     \/ Found(requestId) = {}
     \/ \A r \in Found(requestId) : r.fromUsername \notin BlobKeys(blob)
  THEN /\ FamilyCalled("acceptFamilyRequest", requestId, FALSE)
       /\ UNCHANGED <<remoteUsers, blob, isAuthenticated, currentUserId, dataVars,
                      profileVars, familyVars>>
  ELSE /\ Len(user.familyMembers) < MaxMembers
       /\ \A r \in Found(requestId) :
            Len(StoredUser(r.fromUsername).familyMembers) < MaxMembers
       /\ Accept(CHOOSE r \in Found(requestId) : TRUE)

\* rejectFamilyRequest: the request of the id gets the status rejected
rejectFamilyRequest(requestId) ==
  /\ FamilyCalled("rejectFamilyRequest", requestId,
                  WithStatus(familyRequests, requestId, "rejected") # familyRequests)
  /\ familyRequests' = WithStatus(familyRequests, requestId, "rejected")
  /\ UNCHANGED <<remoteUsers, blob, isAuthenticated, currentUserId, dataVars, profileVars,
                 blobRequests, requestCount>>

\* two people on one browser, the hosted store not configured
Ann == <<" ","A","n","n">>

FamilyNext ==
  \/ \E username \in {Ann, Bob} : signUp(username, Pw1, "notConfigured", "ok")
  \/ \E username \in {Ann, Bob} : login(username, Pw1, "notConfigured", "ok")
  \/ logout("ok")
  \/ \E merged \in BOOLEAN : rehydrate("ok", merged)
  \/ \E username \in Usernames : requestFamilyConnection(username)
  \/ \E requestId \in RequestIds : acceptFamilyRequest(requestId)
  \/ \E requestId \in RequestIds : rejectFamilyRequest(requestId)
---------------------------------------------------------------------------
(* The effect of App that saves the user's data, with the accounts.  The     *)
(* effect runs after a render in which one of its dependencies has changed:  *)
(* its cleanup clears the timer, and it sets a new timer if a user is signed *)
(* in.  saveUserData keeps the currentUserId of that render; when the timer  *)
(* fires it reads the store once, and every call of the pass uses that id    *)
(* and that state, whatever the store does meanwhile.  An item is given the  *)
(* id of the account that made it as its id, so that a row shows whose item  *)
(* it holds.                                                                 *)

NoTimer == <<>>

NoPass ==
  [timer |-> NoTimer, stale |-> FALSE, pc |-> "idle", userId |-> <<>>, user |-> NoUser,
   items |-> {}]

PassInit == pass = NoPass

\* the dependencies of the effect
EffectDeps == <<isAuthenticated, currentUserId, user, storeItems, familyRequests>>

\* a store action; the components render again before the next one
StoreAction(changed) ==
  /\ ~pass.stale
  /\ pass' = [pass EXCEPT !.stale = changed]

\* the render after a change: the cleanup of the effect, and the effect
\* (isSupabaseConfigured() is true here)
render ==
  /\ pass.stale
  /\ pass' = [pass EXCEPT !.stale = FALSE,
                          !.timer = IF isAuthenticated /\ Len(currentUserId) > 0 /\ user.present
                                    THEN currentUserId ELSE NoTimer]
  /\ UNCHANGED authVars

\* the timer fires: saveUserData starts, state = useStore.getState()
timerFires ==
  /\ pass.timer # NoTimer
  /\ pass.pc = "idle"
  /\ pass' = [pass EXCEPT !.timer = NoTimer, !.pc = "update", !.userId = pass.timer,
                          !.user = user, !.items = storeItems]
  /\ UNCHANGED authVars

\* userService.update(currentUserId, updates): the fields of state.user that
\* are defined; the call can fail
passUpdate(hosted) ==
  /\ pass.pc = "update"
  /\ pass' = [pass EXCEPT !.pc = "create"]
  /\ rowUser' = IF hosted = "ok" /\ pass.user.present /\ HasRow(pass.userId)
                THEN PutRow(rowUser, [id |-> pass.userId,
                                      preferred_name |-> pass.user.preferredName,
                                      is_onboarded |-> pass.user.hasCompletedOnboarding,
                                      family_members |-> pass.user.familyMembers])
                ELSE rowUser
  /\ UNCHANGED <<remoteUsers, blob, isAuthenticated, currentUserId, authLast, dataVars,
                 signedUp, user, blobUser, familyVars>>

\* a pass that calls create with the id of the user signed in at that moment
CreatedFor_Current(p) == currentUserId

\* the user id a create is called with: the currentUserId of the render that
\* set the timer
CreatedFor(p) == p.userId

\* one item of the state: create(currentUserId, item) unless the fetch for
\* the user has its id; the insert needs a row of users for the id, and an
\* item id that has no row yet
passCreate(item, hosted) ==
  /\ pass.pc = "create"
  /\ item \in pass.items
  /\ pass' = [pass EXCEPT !.items = pass.items \ {item}]
  /\ remoteItems' = IF /\ hosted = "ok"
                       /\ HasRow(CreatedFor(pass))
                       /\ \A q \in remoteItems : <<q[2], q[3]>> # item
                    THEN remoteItems \cup {<<CreatedFor(pass), item[1], item[2]>>}
                    ELSE remoteItems
  /\ UNCHANGED <<remoteUsers, blob, isAuthenticated, currentUserId, authLast, storeItems,
                 blobItems, signedUp, profileVars, familyVars>>

passDone ==
  /\ pass.pc = "create"
  /\ pass.items = {}
  /\ pass' = [pass EXCEPT !.pc = "idle"]
  /\ UNCHANGED authVars

\* the username of an account id
NameOf(id) == IF StartsWith(id, UserId(<<>>)) THEN SubSeq(id, Len(UserId(<<>>)) + 1, Len(id)) ELSE id

PassCases == {"ok", "error"}

\* two people with accounts in the hosted store; localStorage, which plays no
\* part in a pass, cannot be written
PassStoreNext ==
  \/ \E username \in {Ann, Bob} : signUp(username, Pw1, "ok", "ok")
  \/ \E username \in {Ann, Bob} : login(username, Pw1, "ok", "ok")
  \/ logout("quotaExceeded")
  \/ addToStore("talkSessions", currentUserId)
  \/ addMemorySession(currentUserId, "error", "quotaExceeded")
  \/ completeOnboarding(NameOf(currentUserId), "ok", "quotaExceeded")

PassNext ==
  \/ PassStoreNext /\ StoreAction(EffectDeps' # EffectDeps)
  \/ render
  \/ timerFires
  \/ passUpdate("ok")
  \/ \E item \in pass.items, hosted \in PassCases : passCreate(item, hosted)
  \/ passDone
---------------------------------------------------------------------------
(* Specifications *)

Init ==
  HealthInit /\ CLIInit /\ SageInit /\ SyncInit /\ AuthInit /\ ConversationInit /\ PassInit

SpecHealth ==
  Init /\ [][HealthNext /\ UNCHANGED <<cliVars, sageVars, syncVars, authVars, conversationVars, appVars>>]_vars

SpecCLI ==
  Init /\ [][CLINext /\ UNCHANGED <<talkVars, sageVars, syncVars, authVars, conversationVars, appVars>>]_vars

SpecSage ==
  Init /\ [][SageNext /\ UNCHANGED <<talkVars, cliVars, syncVars, authVars, conversationVars, appVars>>]_vars

SpecSync ==
  Init /\ [][SyncNext /\ UNCHANGED <<talkVars, cliVars, sageVars, authVars, conversationVars, appVars>>]_vars

SpecAuth ==
  Init /\ [][AuthNext /\ UNCHANGED <<talkVars, cliVars, sageVars, syncVars, conversationVars, appVars>>]_vars

(* The conversation shares isRecording with the dictation turn. *)
SpecConversation ==
  Init /\ [][ConversationNext
             /\ UNCHANGED <<transcript, nPieces, utterance, detected, cliVars, sageVars,
                            syncVars, authVars, appVars>>]_vars

(* The account actions for one person, with the user's data. *)
SpecData ==
  Init /\ [][DataNext
             /\ UNCHANGED <<talkVars, cliVars, sageVars, syncVars, conversationVars, appVars>>]_vars

(* The account actions for one person, with onboarding and reloads. *)
SpecOnboarding ==
  Init /\ [][OnboardingNext
             /\ UNCHANGED <<talkVars, cliVars, sageVars, syncVars, conversationVars, appVars>>]_vars

(* Two people, their family requests and connections. *)
SpecFamily ==
  Init /\ [][FamilyNext
             /\ UNCHANGED <<talkVars, cliVars, sageVars, syncVars, conversationVars, appVars>>]_vars

(* Two people, their data and the passes of saveUserData. *)
SpecPass ==
  Init /\ [][PassNext
             /\ UNCHANGED <<talkVars, cliVars, sageVars, syncVars, conversationVars>>]_vars
---------------------------------------------------------------------------
(* Properties of the health keyword matcher *)

W_pain == <<"p","a","i","n">>
W_sore == <<"s","o","r","e">>

HasNegation(sentence) ==
  \E n \in 1..Len(NEGATION_WORDS) : MatchesWord(ToLowerCase(sentence), NEGATION_WORDS[n])

KeywordsOf(category) ==
  UNION {{e.keywords[k] : k \in 1..Len(e.keywords)} :
           e \in {HEALTH_KEYWORDS[c] : c \in {d \in 1..Len(HEALTH_KEYWORDS) :
                                                 HEALTH_KEYWORDS[d].category = category}}}

\* C4: the list returned by extractHealthInfo holds no two entries with the same
\* category and the same description sentence.
C4_NoDuplicateEntry ==
  \A i, j \in 1..Len(detected) :
    i # j => ~(/\ detected[i].category = detected[j].category
               /\ detected[i].description = detected[j].description)

\* a sentence with two keywords of the category pain was matched, once
C4_Witness ==
  /\ ~isRecording
  /\ Len(SplitSentences(utterance)) = 1
  /\ Includes(utterance, W_pain) /\ Includes(utterance, W_sore)
  /\ Cardinality({n \in 1..Len(detected) : detected[n].category = "pain"}) = 1

\* C5: no returned entry describes a sentence that has a negation word, and the
\* text "no pain" (in any letter case) yields no entry at all.
C5_NegatedExcluded ==
  /\ \A n \in 1..Len(detected) : ~HasNegation(detected[n].description)
  /\ (~isRecording /\ ToLowerCase(utterance) = <<"n","o"," ","p","a","i","n">>)
        => detected = <<>>

\* "No pain" was dictated and matched
C5_Witness ==
  /\ ~isRecording
  /\ utterance = <<"N","o"," ","p","a","i","n">>
  /\ detected = <<>>

ClaimedMild ==
  << <<"m","i","l","d">>, <<"s","l","i","g","h","t">>, <<"l","i","t","t","l","e">>,
     <<"b","i","t">>, <<"s","o","m","e","w","h","a","t">> >>

ClaimedModerate ==
  << <<"m","o","d","e","r","a","t","e">>, <<"m","e","d","i","u","m">>, <<"o","k","a","y">>,
     <<"o","k">> >>

DefaultSeverity(category) ==
  (CHOOSE n \in 1..Len(HEALTH_KEYWORDS) : HEALTH_KEYWORDS[n].category = category)

ClaimedSeverity(lower, category) ==
  IF MatchesAnyWord(lower, SEVERE_TERMS) THEN "high"
  ELSE IF MatchesAnyWord(lower, ClaimedMild) THEN "low"
  ELSE IF MatchesAnyWord(lower, ClaimedModerate) THEN "moderate"
  ELSE HEALTH_KEYWORDS[DefaultSeverity(category)].severity

\* C15: the severity of every entry is 'high' when its sentence has a severe
\* term, else 'low' when it has a mild term, else 'moderate' when it has a
\* moderate term, the word "moderate" among them, else the default severity of
\* the entry's category.
C15_SeverityBySentence ==
  \A n \in 1..Len(detected) :
    detected[n].severity =
      ClaimedSeverity(ToLowerCase(detected[n].description), detected[n].category)
---------------------------------------------------------------------------
(* Properties of the CLI score *)

Scored == cliResult # NoScore

InRange(n) == 0 <= n /\ n <= 100

\* C1: every sub-score of the returned breakdown lies in [0,100], and so does the
\* overall score, whatever the messages, duration, pauses and filler words.
C1_ScoresInRange ==
  Scored =>
    /\ 0 <= cliResult.breakdown.lexicalAccess.num
    /\ cliResult.breakdown.lexicalAccess.num <= 100 * cliResult.breakdown.lexicalAccess.den
    /\ InRange(cliResult.breakdown.fluency)
    /\ InRange(cliResult.breakdown.syntacticComplexity)
    /\ InRange(cliResult.breakdown.coherence)
    /\ InRange(cliResult.breakdown.processingSpeed)
    /\ InRange(cliResult.breakdown.attention)
    /\ InRange(cliResult.overall)

\* a transcript was scored whose lexical blend, less the penalty, is below zero
C1_Witness ==
  /\ Scored
  /\ LexicalBlend(Words(ToLowerCase(FullText(cliMessages)))).num < 0
  /\ cliResult.breakdown.lexicalAccess.num = 0

\* 100 * den times the sum 20% lexical access + 20% fluency + 15% syntactic
\* complexity + 20% coherence + 15% processing speed + 10% attention, den being
\* the denominator of the lexical access score
PercentSum(b) ==
  20 * b.lexicalAccess.num
  + b.lexicalAccess.den * (20 * b.fluency + 15 * b.syntacticComplexity + 20 * b.coherence
                           + 15 * b.processingSpeed + 10 * b.attention)

\* r is the sum rounded to the nearest whole number, halves upwards
IsNearest(r, b) ==
  /\ (2 * r - 1) * 100 * b.lexicalAccess.den <= 2 * PercentSum(b)
  /\ 2 * PercentSum(b) < (2 * r + 1) * 100 * b.lexicalAccess.den

\* C2: the overall score is the 20/20/15/20/15/10 percent weighted sum of the
\* returned sub-scores, rounded to the nearest integer and then clamped to [0,100].
C2_OverallIsWeightedSum ==
  Scored =>
    \E r \in -1..101 :
      /\ IsNearest(r, cliResult.breakdown)
      /\ cliResult.overall = Max(0, Min(100, r))

\* a transcript was scored whose syntactic complexity and coherence differ and
\* whose weighted sum is not whole
C2_Witness ==
  /\ Scored
  /\ cliResult.breakdown.syntacticComplexity # cliResult.breakdown.coherence
  /\ PercentSum(cliResult.breakdown) % (100 * cliResult.breakdown.lexicalAccess.den) # 0
  /\ cliResult.overall > 0

\* C3: the empty transcript scores 50 for coherence, processingSpeed and attention
\* and 0 for lexicalAccess, fluency and syntacticComplexity.
C3_EmptyTranscript ==
  (Scored /\ cliMessages = <<>>) =>
    /\ cliResult.breakdown.coherence = 50
    /\ cliResult.breakdown.processingSpeed = 50
    /\ cliResult.breakdown.attention = 50
    /\ cliResult.breakdown.lexicalAccess.num = 0
    /\ cliResult.breakdown.fluency = 0
    /\ cliResult.breakdown.syntacticComplexity = 0

\* the empty transcript was scored for a duration of a minute
C3_Witness ==
  /\ Scored
  /\ cliMessages = <<>>
  /\ cliArgs.duration = 60

UserPositions(list) == {i \in 1..Len(list) : list[i].role = "user"}

\* every user message directly follows a Sage message, latency milliseconds later
SteadyResponses(list, latency) ==
  \A i \in UserPositions(list) :
    /\ i > 1
    /\ list[i - 1].role = "sage"
    /\ list[i].timestamp - list[i - 1].timestamp = latency

\* C14: for a transcript scored with a duration that is not 0, with at least
\* two user messages, each directly after a Sage message and all with the
\* same latency between 1 and 3 seconds, the processingSpeed sub-score is 100.
C14_SteadyInWindowIs100 ==
  (/\ Scored
   /\ cliArgs.duration > 0
   /\ Cardinality(UserPositions(cliMessages)) >= 2
   /\ \E latency \in 1000..3000 : SteadyResponses(cliMessages, latency)) =>
    cliResult.breakdown.processingSpeed = 100

---------------------------------------------------------------------------
(* Properties of the Sage response wrapper *)

\* the canned response(s) the regular expressions select for a user message
CannedFor(userMessage) ==
  IF MatchesAnyWord(ToLowerCase(userMessage), PAIN_WORDS) THEN {PAIN_RESPONSE}
  ELSE IF MatchesAnyWord(ToLowerCase(userMessage), SLEEP_WORDS) THEN {SLEEP_RESPONSE}
  ELSE IF MatchesAnyWord(ToLowerCase(userMessage), MOOD_WORDS) THEN {MOOD_RESPONSE}
  ELSE IF MatchesAnyWord(ToLowerCase(userMessage), GOOD_WORDS) THEN {GOOD_RESPONSE}
  ELSE IF MatchesAnyWord(ToLowerCase(userMessage), BAD_WORDS) THEN {BAD_RESPONSE}
  ELSE IF Includes(userMessage, <<"?">>) THEN {QUESTION_RESPONSE}
  ELSE {responses[n] : n \in 1..Len(responses)}

\* the key is missing or invalid, the request threw, or the completion is empty
MustFallBack ==
  \/ Len(API_KEY) = 0
  \/ ~isValidApiKey(provider, API_KEY)
  \/ completion.kind = "threw"
  \/ completion.kind = "returned" /\ Len(TextOf(completion)) = 0

\* C10: generateSageResponse never rejects and never resolves with the empty
\* string; when the key is missing or invalid, the completion is empty or the
\* request throws, it resolves with the canned response the regular expressions
\* select for the user's message.
C10_NeverRejectsNorEmpty ==
  /\ sageStatus # "rejected"
  /\ sageStatus = "resolved" =>
       /\ Len(sageReply) > 0
       /\ MustFallBack => sageReply \in CannedFor(sageMessage)

\* with a well-formed key the completion came back blank and the reply is the
\* canned response for a message about pain
C10_Witness ==
  /\ sageStatus = "resolved"
  /\ isValidApiKey(provider, API_KEY) /\ clientReady
  /\ completion.kind = "returned" /\ completion.hasContent
  /\ Len(completion.content) > 0 /\ Len(TextOf(completion)) = 0
  /\ MatchesAnyWord(ToLowerCase(sageMessage), PAIN_WORDS)
  /\ sageReply = PAIN_RESPONSE
---------------------------------------------------------------------------
(* Properties of the sync pass *)

SnapshotIds(t) == {snapshot[t][n].id : n \in 1..Len(snapshot[t])}

\* the positions of the items of the pass whose id was not fetched
Absent(t) == {n \in 1..Len(snapshot[t]) : snapshot[t][n].id \notin fetchedIds[t]}

\* those of them the loop does not skip: a memory session must be well-formed
Eligible(t) ==
  {n \in Absent(t) : t = "memorySessions" => snapshot[t][n].wellFormed}

\* C7 as stated: in a pass that fetched the ids of an entity type, create is
\* called for a local item exactly when its id is not among the ids fetched.
C7_CreatedIffNotFetched ==
  syncPc = "done" =>
    \A t \in TypeSet :
      fetched[t] = "ok" =>
        \A n \in 1..Len(snapshot[t]) :
          snapshot[t][n].id \in createCalls[t] <=> snapshot[t][n].id \notin fetchedIds[t]

\* create is called only for items of a type whose ids were fetched, and only for
\* ids that were not fetched
OnlyAbsentCreated ==
  \A t \in TypeSet :
    /\ createCalls[t] \subseteq {snapshot[t][n].id : n \in Absent(t)}
    /\ fetched[t] # "ok" => createCalls[t] = {}

\* when the pass is over, create was called for every item it does not skip,
\* except that the memory-session loop may have stopped at a failed create
AllEligibleCreated ==
  syncPc = "done" =>
    \A t \in TypeSet :
      fetched[t] = "ok" =>
        /\ createCalls[t] \subseteq {snapshot[t][n].id : n \in Eligible(t)}
        /\ t # "memorySessions" => createCalls[t] = {snapshot[t][n].id : n \in Eligible(t)}
        /\ t = "memorySessions" =>
             \/ createCalls[t] = {snapshot[t][n].id : n \in Eligible(t)}
             \/ /\ failures > 0
                /\ createCalls[t] # {}
                /\ \A n, m \in Eligible(t) :
                     (n < m /\ snapshot[t][m].id \in createCalls[t])
                       => snapshot[t][n].id \in createCalls[t]

\* no step changes or removes a row of the hosted store
RowsKept == \A t \in TypeSet : remoteRows[t] \subseteq remoteRows'[t]

\* C7, amended: for an entity type whose ids the pass fetched, create is called
\* for a local item exactly when its id was not fetched, save that the
\* memory-session loop skips malformed sessions and stops at a create that
\* reports the table missing; nothing is created for a type whose fetch failed or
\* was not reached; no row is ever updated, merged or deleted.
C7_InsertIfAbsent ==
  /\ [](OnlyAbsentCreated /\ AllEligibleCreated)
  /\ [][RowsKept]_vars

\* a pass is over in which, for one entity type, one item's id was fetched and
\* another item's was not, and the row of the latter was inserted
C7_Witness ==
  /\ syncPc = "done"
  /\ \E t \in TypeSet :
       /\ fetched[t] = "ok"
       /\ SnapshotIds(t) \cap fetchedIds[t] # {}
       /\ createCalls[t] # {}
       /\ createCalls[t] \subseteq IdsOf(remoteRows[t])

\* C8 as stated: a pass that is over has attempted the user update and every
\* entity type, whatever failed on the way.
C8_AllTypesAttempted ==
  syncPc = "done" =>
    /\ userUpdate # "none"
    /\ \A t \in TypeSet : fetched[t] # "none"

\* the ids of an entity type for which the store action has called create:
\* addHealthCard and addMemorySession call it for every item they add
DirectIssued(t) == IF t \in DirectTypes THEN LocalIds(t) ELSE {}

\* C17 as stated: over passes and direct saves, create is attempted at most
\* once for an entity type and item id: a pass calls create for no id the store
\* action has called it for.
C17_CreateAttemptedOnce ==
  \A t \in TypeSet : createCalls[t] \cap DirectIssued(t) = {}

\* the hosted store holds at most one row for an entity type and item id
OneRowPerId ==
  \A t \in TypeSet : \A r1, r2 \in remoteRows[t] : r1.id = r2.id => r1 = r2

\* a step adds a row only for an id the table did not hold
NewRowsOnly ==
  \A t \in TypeSet :
    \A r \in remoteRows'[t] \ remoteRows[t] : r.id \notin IdsOf(remoteRows[t])

\* C17, amended: only new items are stored remotely: over any interleaving of
\* passes and direct saves the hosted store holds at most one row for an entity
\* type and item id, and a create for an id that has a row adds none; create
\* may be attempted again for an id whose direct save failed or had not landed
\* when the pass fetched.
C17_OneRowPerItem ==
  /\ []OneRowPerId
  /\ [][NewRowsOnly]_vars

\* the direct save of an item landed after the pass had fetched, and the pass
\* called create for the same id: the row of the direct save is the only one
C17_Witness ==
  \E t \in DirectTypes :
    \E id \in createCalls[t] :
      /\ id \notin fetchedIds[t]
      /\ [id |-> id, origin |-> "direct"] \in remoteRows[t]
      /\ [id |-> id, origin |-> "sync"] \notin remoteRows[t]
---------------------------------------------------------------------------
(* Properties of login and signUp *)

\* the hosted store was not configured, or its call threw
FellBack(call) == call.hosted \in {"notConfigured", "error"}

\* username and password are not empty, and localStorage worked
Usable(call) ==
  /\ Len(ToLowerCase(Trim(call.username))) > 0
  /\ Len(call.password) > 0
  /\ call.storage = "ok"

\* the blob held the normalized username with the password, before the call
Held(call) ==
  \E e \in call.blobBefore :
    e.key = ToLowerCase(Trim(call.username)) /\ e.password = call.password

\* the blob held the normalized username, before the call
Taken(call) ==
  \E e \in call.blobBefore : e.key = ToLowerCase(Trim(call.username))

\* the blob holds the account of the call
AccountInBlob(call) ==
  \E e \in blob :
    e.key = ToLowerCase(Trim(call.username)) /\ e.password = call.password

\* C9 as stated: when the hosted store is not configured or its call fails,
\* login succeeds exactly when the blob holds the normalized username with a
\* matching password, and signUp creates the account in the blob.
C9_FallbackToBlob ==
  (FellBack(authLast) /\ Usable(authLast)) =>
    /\ authLast.op = "login" => (authLast.result <=> Held(authLast))
    /\ authLast.op = "signUp" => (authLast.result /\ AccountInBlob(authLast))

\* C9, amended: when the hosted store is not configured or its call fails, login
\* succeeds exactly when the blob holds the normalized username with a matching
\* password; signUp creates the account in the blob and signs in if the blob does
\* not hold the normalized username yet, and otherwise returns false and leaves
\* the blob as it is.
C9_FallbackToBlobUnlessTaken ==
  (FellBack(authLast) /\ Usable(authLast)) =>
    /\ authLast.op = "login" =>
         /\ authLast.result <=> Held(authLast)
         /\ authLast.result =>
              isAuthenticated /\ currentUserId = ToLowerCase(Trim(authLast.username))
    /\ authLast.op = "signUp" =>
         IF Taken(authLast)
         THEN ~authLast.result /\ blob = authLast.blobBefore /\ ~isAuthenticated
         ELSE /\ authLast.result
              /\ AccountInBlob(authLast)
              /\ \A e \in authLast.blobBefore : e \in blob
              /\ isAuthenticated
              /\ currentUserId = ToLowerCase(Trim(authLast.username))

\* the call of the hosted store threw and login signed in from the blob, for a
\* username typed with a capital letter and a space
C9_Witness ==
  /\ authLast.op = "login"
  /\ authLast.hosted = "error"
  /\ Usable(authLast)
  /\ authLast.username # ToLowerCase(Trim(authLast.username))
  /\ Held(authLast)
  /\ authLast.result
  /\ isAuthenticated

\* the step is a login, right after a logout, with the username and password
\* of the last signUp that returned true
LoginAfterSignUp ==
  /\ signedUp # NoSignUp
  /\ authLast.op = "logout"
  /\ authLast'.op = "login"
  /\ authLast'.username = signedUp.username
  /\ authLast'.password = signedUp.password

\* the login returns true and signs in the account the signUp created
SignsInSignedUp ==
  /\ authLast'.result
  /\ isAuthenticated'
  /\ currentUserId' = signedUp.id

\* C19 as stated: after a signUp(u, p) that returned true and a logout,
\* login(u, p) returns true and signs in the same account, whatever the hosted
\* store did at the signUp and does at the login.
C19_LoginAfterSignUp ==
  [][LoginAfterSignUp => SignsInSignedUp]_vars

\* the login looks for the account in the store the signUp created it in, and
\* can read it: the hosted store is reached at both calls, or at neither
SameStore ==
  IF signedUp.hosted = "ok" THEN authLast'.hosted = "ok"
  ELSE authLast'.hosted # "ok" /\ authLast'.storage # "unavailable"

\* C19, amended: after a signUp(u, p) that returned true and a logout,
\* login(u, p) returns true and signs in the same account when the login uses
\* the store the signUp used: the hosted store is configured and answers at both
\* calls, or at neither and localStorage can be read.
C19_LoginAfterSignUpSameStore ==
  [][(LoginAfterSignUp /\ SameStore) => SignsInSignedUp]_vars

\* the call of the hosted store threw at the signUp, the hosted store is not
\* configured at the login after the logout, and the login signed in the account
C19_Witness ==
  /\ authLast.op = "login"
  /\ authLast.result
  /\ signedUp.hosted = "error"
  /\ authLast.hosted = "notConfigured"
  /\ authLast.username = signedUp.username
  /\ authLast.password = signedUp.password
  /\ isAuthenticated
  /\ currentUserId = signedUp.id
  /\ \E e \in authLast.blobBefore : e.key = signedUp.id
---------------------------------------------------------------------------
(* Claims about the Talk screen's conversation *)

IsCompletedWith(session, result) ==
  /\ session.status = "completed"
  /\ session.duration >= 0
  /\ session.cliScore = result.overall
  /\ session.cliBreakdown = result.breakdown

StoredCompleted ==
  \A n \in 1..Len(talkSessions) :
    IsCompletedWith(talkSessions[n],
      calculateCLIScore(talkSessions[n].messages, talkSessions[n].duration, 0, 0))

ActiveWhileOpen ==
  currentSession # NoSession =>
    /\ currentSession.status = "active"
    /\ currentSession.cliScore = -1

AddedOnlyAtEnd ==
  talkSessions' # talkSessions =>
    /\ lastHandler' = "handleEndConversation"
    /\ isConversationStarted /\ ~isConversationStarted'
    /\ Len(talkSessions') = Len(talkSessions) + 1
    /\ SubSeq(talkSessions', 1, Len(talkSessions)) = talkSessions
    /\ talkSessions'[Len(talkSessions')].id = currentSession.id
    /\ talkSessions'[Len(talkSessions')].messages = currentSession.messages

CreatedActive ==
  lastHandler' = "startConversation" =>
    /\ currentSession'.status = "active"
    /\ talkSessions' = talkSessions

\* C11: the session of a conversation is active from its start and enters the
\* store's talkSessions only in the step that ends the conversation; every
\* stored session is completed, and its duration, cliScore and cliBreakdown
\* are what calculateCLIScore gives for the stored session's own messages.
C11_SessionLifecycle ==
  /\ [](StoredCompleted /\ ActiveWhileOpen)
  /\ [][AddedOnlyAtEnd /\ CreatedActive]_vars

HasUserMessage(session) ==
  \E n \in 1..Len(session.messages) : session.messages[n].role = "user"

C11_Witness ==
  /\ Len(talkSessions) = 2
  /\ HasUserMessage(talkSessions[1])
  /\ talkSessions[1].cliScore > 0
  /\ talkSessions[1].duration > 0

CardsConfirmed == \A n \in 1..Len(healthCards) : healthCards[n].confirmed = TRUE

StoredOnlyOnConfirm ==
  healthCards' # healthCards =>
    /\ lastHandler' = "handleConfirmHealthCard"
    /\ pendingHealthCard # NoCard
    /\ pendingHealthCard' = NoCard
    /\ Len(healthCards') = Len(healthCards) + 1
    /\ SubSeq(healthCards', 1, Len(healthCards)) = healthCards
    /\ healthCards'[Len(healthCards')].id = pendingHealthCard.id
    /\ healthCards'[Len(healthCards')].confirmed = TRUE

DroppedWithoutCard ==
  (/\ pendingHealthCard # NoCard
   /\ lastHandler' \in {"handleRejectHealthCard", "handleEndConversation"}) =>
    /\ healthCards' = healthCards
    /\ pendingHealthCard' = NoCard

\* C12: the store's healthCards grows only in a step of handleConfirmHealthCard
\* taken while a prompt is pending, by one card that has the prompt's id and
\* confirmed = true; rejecting the prompt, or ending the conversation while
\* it is pending, removes the prompt and leaves healthCards as it was.
C12_StoredOnlyWhenConfirmed ==
  /\ []CardsConfirmed
  /\ [][StoredOnlyOnConfirm /\ DroppedWithoutCard]_vars

\* one prompt was confirmed and a later one rejected
C12_Witness ==
  /\ Len(healthCards) = 1
  /\ healthCards[1].category = "pain"
  /\ lastHandler = "handleRejectHealthCard"
  /\ Cardinality(appended) = 2

\* C18: every user message added to the message list in a conversation is
\* among the messages of the session stored for that conversation.
C18_AllUserMessagesStored ==
  \A n \in 1..Len(talkSessions) :
    \A a \in appended :
      a[1] = talkSessions[n].id =>
        \E k \in 1..Len(talkSessions[n].messages) : talkSessions[n].messages[k] = a[2]
---------------------------------------------------------------------------
(* Claims about the user's data *)

\* C13: after addHealthCard for a signed-in user, with localStorage working,
\* a card whose create was not made (the hosted store is not configured) or
\* failed is in the arrays of the blob entry of the current user.
C13_BackedUpLocally ==
  (/\ authLast.op = "addHealthCard"
   /\ authLast.storage = "ok"
   /\ authLast.hosted # "ok") =>
    <<currentUserId, authLast.item[1], authLast.item[2]>> \in blobItems

\* the step is a login that returns true, right after a logout, into the
\* account that logged out
LoginAfterLogout ==
  /\ authLast.op = "logout"
  /\ authLast'.op = "login"
  /\ authLast'.result
  /\ currentUserId' = authLast.username

\* C20: every item that was in the store's arrays when logout was called is in
\* them again after the next login that returns true for the same account.
C20_DataSurvivesRoundTrip ==
  [][LoginAfterLogout => authLast.items \subseteq storeItems']_vars
---------------------------------------------------------------------------
(* ---- Claims about onboarding ---- *)

\* C21: in every state of the store, a user with hasCompletedOnboarding has a
\* preferredName that is not empty.
C21_OnboardedHasName ==
  (user.present /\ user.hasCompletedOnboarding) => Len(user.preferredName) > 0

\* a signUp has just returned true
NewlySignedUp ==
  /\ authLast.op = "signUp"
  /\ authLast.result

OfSignedUp ==
  /\ signedUp # NoSignUp
  /\ user.present
  /\ currentUserId = signedUp.id

OnboardingCall ==
  /\ authLast'.op = "completeOnboarding"
  /\ authLast' # authLast

BlankOrLoggedOut ==
  \/ Len(Trim(authLast'.item)) = 0
  \/ Len(currentUserId) = 0
  \/ ~isAuthenticated

StoreAndStorage == <<remoteUsers, blob, isAuthenticated, currentUserId, dataVars, profileVars>>

\* C22: a newly signed-up user has hasCompletedOnboarding = false and an empty
\* preferredName; the user of a signed-up account has hasCompletedOnboarding
\* only after a completeOnboarding that took effect, which needs a name that is
\* not blank and a currentUserId; completeOnboarding with a blank name or with
\* no currentUserId changes nothing.
C22_OnboardedOnlyByName ==
  /\ [](NewlySignedUp => user = NewUser)
  /\ []((OfSignedUp /\ user.hasCompletedOnboarding) => signedUp.onboarded)
  /\ [][(OnboardingCall /\ authLast'.result) => ~BlankOrLoggedOut]_vars
  /\ [][(OnboardingCall /\ BlankOrLoggedOut) => UNCHANGED StoreAndStorage]_vars

C22_Witness ==
  /\ authLast.op = "completeOnboarding"
  /\ authLast.result
  /\ OfSignedUp
  /\ signedUp.onboarded
  /\ user.hasCompletedOnboarding
  /\ \E hd \in 1..Len(authLast.item) : authLast.item[hd] = " "
---------------------------------------------------------------------------
(* ---- Claims about family requests ---- *)

StatusIn(requests, requestId) == {r.status : r \in {q \in requests : q.id = requestId}}

Allowed(before, after) ==
  \/ before = after
  \/ before = "pending" /\ after \in {"accepted", "rejected"}

StatusKept(before, after) ==
  \A requestId \in RequestIds :
    \A b \in StatusIn(before, requestId), a \in StatusIn(after, requestId) : Allowed(b, a)

\* C23: the status of a family request changes only from pending to accepted
\* or from pending to rejected, in the store's familyRequests and in those of
\* every entry of sage-users; an accepted or rejected request keeps its status.
C23_StatusOnlyFromPending ==
  [][/\ StatusKept(familyRequests, familyRequests')
     /\ \A key \in BlobKeys(blob) :
          StatusKept(RequestsOf(blobRequests, key), RequestsOf(blobRequests', key))]_vars

\* an acceptFamilyRequest that changed something
EffectiveAccept ==
  /\ authLast'.op = "acceptFamilyRequest"
  /\ authLast'.result
  /\ authLast' # authLast

Accepted == CHOOSE r \in familyRequests : r.id = authLast'.item

MembersFor(members, requestId) ==
  Cardinality({i \in 1..Len(members) : members[i].request = requestId})

MembersOfEntry(users, key) == (CHOOSE e \in users : e.key = key).familyMembers

OneMemberPerRequest ==
  \A requestId \in RequestIds :
    /\ MembersFor(user.familyMembers, requestId) <= 1
    /\ \A e \in blobUser : MembersFor(e.familyMembers, requestId) <= 1

\* C24: an acceptFamilyRequest that takes effect adds exactly one family member
\* to the accepting user and exactly one to the user of the requester's entry,
\* and no user ever has two members made for the same request, whatever
\* logouts, logins and reloads lie between the calls.
C24_OneMemberPerSide ==
  /\ [][EffectiveAccept =>
          /\ Len(user'.familyMembers) = Len(user.familyMembers) + 1
          /\ Len(MembersOfEntry(blobUser', Accepted.fromUsername))
               = Len(MembersOfEntry(blobUser, Accepted.fromUsername)) + 1]_vars
  /\ []OneMemberPerRequest

\* C25: acceptFamilyRequest changes state only when the signed-in user is the
\* recipient (toUsername) of the request.
C25_OnlyRecipientAccepts ==
  [][EffectiveAccept => Accepted.toUsername = currentUserId]_vars
---------------------------------------------------------------------------
(* ---- Claims about the passes and the accounts ---- *)

\* the account that made an item (its items carry its id)
MadeBy(item) == item[2]

RowsOfOwnItems == \A q \in remoteItems : q[1] = MadeBy(<<q[2], q[3]>>)

\* the users row of an id holds the name of that account, or none
RowsOfOwnUser ==
  \A r \in rowUser :
    \/ Len(r.preferred_name) = 0
    \/ UserId(ToLowerCase(r.preferred_name)) = r.id

\* C26: over any interleaving of logout, login, signUp and the steps of sync
\* passes, every row of the data tables holds an item of the account whose
\* user id it is stored under, and the users row of an id holds that
\* account's user.
C26_PassWritesOwnData == RowsOfOwnItems /\ RowsOfOwnUser

\* a pass of one account has created a row while another account is signed in
\* with an item of its own in the store
C26_Witness ==
  /\ pass.pc = "create"
  /\ isAuthenticated
  /\ pass.userId # currentUserId
  /\ \E q \in remoteItems : q[1] = pass.userId
  /\ \E i \in storeItems : MadeBy(i) = currentUserId
  /\ \E i \in pass.items : MadeBy(i) = pass.userId
=============================================================================
